---------------------------- MODULE Spec2Model ----------------------------
(***************************************************************************)
(* The Bloxs OData proxy (a Cloudflare Worker): request router, token      *)
(* manager, query sanitiser, response redactor and schema learner of       *)
(* src/unnamed/part_001 (the complete worker; cloudflare-proxy/src/index.js *)
(* is an earlier revision of the same file).                               *)
(*                                                                         *)
(* Text is modelled as a sequence of one-character strings, so that        *)
(* trimming, lowercasing, splitting and integer parsing are computed and   *)
(* not assumed.  A query string is modelled as the ordered list of decoded *)
(* (name, value) pairs that URLSearchParams holds for it.  Instants are in *)
(* seconds: every duration of the source is a whole number of seconds.     *)
(***************************************************************************)
EXTENDS Integers, Sequences, FiniteSets, TLC

(***************************************************************************)
(* Text primitives (the JavaScript String methods the worker calls).       *)
(***************************************************************************)
UpperCase == <<"A","B","C","D","E","F","G","H","I","J","K","L","M","N","O","P","Q","R","S","T","U","V","W","X","Y","Z">>

LowerCase == <<"a","b","c","d","e","f","g","h","i","j","k","l","m","n","o","p","q","r","s","t","u","v","w","x","y","z">>

Digits == <<"0","1","2","3","4","5","6","7","8","9">>

\* null / undefined: a value no text equals (text holds one-character strings)
Null == <<"null">>

\* the lowercase letter of each uppercase letter
LowerCaseOf ==
  [c \in {UpperCase[i] : i \in 1..Len(UpperCase)} |->
     LowerCase[CHOOSE i \in 1..Len(UpperCase) : UpperCase[i] = c]]

toLowerCaseChar(c) == IF c \in DOMAIN LowerCaseOf THEN LowerCaseOf[c] ELSE c

toLowerCase(s) == [i \in 1..Len(s) |-> toLowerCaseChar(s[i])]

IsWhiteSpace(c) == c \in {" ", "\t"}

RECURSIVE trimStart(_)
trimStart(s) ==
  IF s # <<>> /\ IsWhiteSpace(Head(s)) THEN trimStart(Tail(s)) ELSE s

RECURSIVE trimEnd(_)
trimEnd(s) ==
  IF s # <<>> /\ IsWhiteSpace(s[Len(s)]) THEN trimEnd(SubSeq(s, 1, Len(s) - 1)) ELSE s

trim(s) == trimEnd(trimStart(s))

startsWith(s, p) == Len(s) >= Len(p) /\ SubSeq(s, 1, Len(p)) = p

endsWith(s, p) == Len(s) >= Len(p) /\ SubSeq(s, Len(s) - Len(p) + 1, Len(s)) = p

includes(s, p) == \E i \in 1..(Len(s) - Len(p) + 1) : SubSeq(s, i, i + Len(p) - 1) = p

\* s.split(sep) for a one-character separator
RECURSIVE split(_, _)
split(s, sep) ==
  IF \E i \in 1..Len(s) : s[i] = sep
  THEN LET i == CHOOSE k \in 1..Len(s) : s[k] = sep /\ \A j \in 1..(k - 1) : s[j] # sep
       IN  <<SubSeq(s, 1, i - 1)>> \o split(SubSeq(s, i + 1, Len(s)), sep)
  ELSE <<s>>

\* s.split(/\s+/)
RECURSIVE splitWhiteSpace(_)
splitWhiteSpace(s) ==
  IF \E i \in 1..Len(s) : IsWhiteSpace(s[i])
  THEN LET i == CHOOSE k \in 1..Len(s) :
                  IsWhiteSpace(s[k]) /\ \A j \in 1..(k - 1) : ~IsWhiteSpace(s[j])
       IN  <<SubSeq(s, 1, i - 1)>> \o splitWhiteSpace(trimStart(SubSeq(s, i + 1, Len(s))))
  ELSE <<s>>

\* parts.join(sep)
RECURSIVE join(_, _)
join(parts, sep) ==
  IF parts = <<>> THEN <<>>
  ELSE IF Len(parts) = 1 THEN parts[1]
  ELSE parts[1] \o sep \o join(Tail(parts), sep)

IsDigit(c) == \E d \in 1..Len(Digits) : Digits[d] = c

DigitValue(c) == (CHOOSE d \in 1..Len(Digits) : Digits[d] = c) - 1

RECURSIVE LeadingDigits(_)
LeadingDigits(s) ==
  IF s # <<>> /\ IsDigit(Head(s)) THEN <<Head(s)>> \o LeadingDigits(Tail(s)) ELSE <<>>

RECURSIVE DecimalValue(_)
DecimalValue(ds) ==
  IF ds = <<>> THEN 0 ELSE 10 * DecimalValue(SubSeq(ds, 1, Len(ds) - 1)) + DigitValue(ds[Len(ds)])

\* Number.parseInt(str, 10): leading white space, an optional sign, then the
\* longest run of digits; NaN when there is no digit
parseInt(str) ==
  LET s      == trimStart(str)
      signed == s # <<>> /\ Head(s) \in {"-", "+"}
      ds     == LeadingDigits(IF signed THEN Tail(s) ELSE s)
  IN  IF ds = <<>> THEN [nan |-> TRUE, n |-> 0]
      ELSE [nan |-> FALSE,
            n   |-> IF signed /\ Head(s) = "-" THEN 0 - DecimalValue(ds) ELSE DecimalValue(ds)]

\* String(n) for a natural number
RECURSIVE String(_)
String(n) ==
  IF n < 10 THEN <<Digits[n + 1]>> ELSE String(n \div 10) \o <<Digits[(n % 10) + 1]>>

(***************************************************************************)
(* URLSearchParams: the ordered list of decoded (name, value) pairs.       *)
(***************************************************************************)
ParamIndex(params, name) ==
  CHOOSE i \in 1..Len(params) :
    params[i].name = name /\ \A j \in 1..(i - 1) : params[j].name # name

ParamsHas(params, name) == \E i \in 1..Len(params) : params[i].name = name

ParamsGet(params, name) ==
  IF ParamsHas(params, name) THEN params[ParamIndex(params, name)].value ELSE Null

RECURSIVE ParamsDelete(_, _)
ParamsDelete(params, name) ==
  IF params = <<>> THEN <<>>
  ELSE IF Head(params).name = name THEN ParamsDelete(Tail(params), name)
  ELSE <<Head(params)>> \o ParamsDelete(Tail(params), name)

\* a set() that starts a new list
ParamsSetAlone(params, name, value) == <<[name |-> name, value |-> value]>>

\* set(): the first pair of that name takes the value, the others go; a new
\* name is appended
ParamsSet(params, name, value) ==
  IF ParamsHas(params, name)
  THEN LET i == ParamIndex(params, name)
       IN  SubSeq(params, 1, i - 1) \o <<[name |-> name, value |-> value]>>
             \o ParamsDelete(SubSeq(params, i + 1, Len(params)), name)
  ELSE Append(params, [name |-> name, value |-> value])

(***************************************************************************)
(* Entity catalog.  KNOWN_SORTABLE_FIELDS holds the entries of the source  *)
(* table that the requests of this model name, each with its full list.    *)
(***************************************************************************)
KNOWN_SORTABLE_FIELDS ==
  << [key |-> <<"U","n","i","t","s">>,
      fields |-> << <<"U","n","i","t","I","d">>,
                    <<"D","i","s","p","l","a","y","N","a","m","e">>,
                    <<"R","e","f","e","r","e","n","c","e">>,
                    <<"C","a","t","e","g","o","r","y","N","a","m","e">>,
                    <<"O","c","c","u","p","a","t","i","o","n","P","e","r","c","e","n","t","a","g","e">>,
                    <<"O","w","n","e","r">>,
                    <<"O","w","n","e","r","I","d">>,
                    <<"R","e","n","t","a","b","l","e","F","l","o","o","r","A","r","e","a">>,
                    <<"C","o","m","p","l","e","x","N","a","m","e">> >>],
     [key |-> <<"F","i","n","a","n","c","i","a","l","M","u","t","a","t","i","o","n","s">>,
      fields |-> << <<"J","o","u","r","n","a","l","P","o","s","t","I","d">>,
                    <<"T","r","a","n","s","a","c","t","i","o","n","D","a","t","e">>,
                    <<"L","e","d","g","e","r","A","c","c","o","u","n","t","C","o","d","e">>,
                    <<"A","m","o","u","n","t">>,
                    <<"R","e","a","l","E","s","t","a","t","e","O","b","j","e","c","t","N","a","m","e">>,
                    <<"R","e","l","a","t","i","o","n","N","a","m","e">>,
                    <<"F","i","n","a","n","c","i","a","l","Y","e","a","r">>,
                    <<"B","o","o","k","i","n","g","D","a","t","e">> >>],
     [key |-> <<"J","o","u","r","n","a","l","P","o","s","t","T","r","a","n","s","a","c","t","i","o","n","s">>,
      fields |-> << <<"J","o","u","r","n","a","l","P","o","s","t","I","d">>,
                    <<"T","r","a","n","s","a","c","t","i","o","n","D","a","t","e">>,
                    <<"B","o","o","k","i","n","g","D","a","t","e">>,
                    <<"J","o","u","r","n","a","l","I","d">>,
                    <<"A","m","o","u","n","t">> >>],
     [key |-> <<"S","a","l","e","s","I","n","v","o","i","c","e","L","i","n","e","s">>,
      fields |-> << <<"S","a","l","e","s","I","n","v","o","i","c","e","L","i","n","e","I","d">>,
                    <<"S","a","l","e","s","I","n","v","o","i","c","e","I","d">>,
                    <<"R","e","a","l","E","s","t","a","t","e","O","b","j","e","c","t","I","d">>,
                    <<"A","m","o","u","n","t">>,
                    <<"L","e","d","g","e","r","A","c","c","o","u","n","t","N","a","m","e">> >>],
     [key |-> <<"P","u","r","c","h","a","s","e","I","n","v","o","i","c","e","L","i","n","e","s">>,
      fields |-> << <<"P","u","r","c","h","a","s","e","I","n","v","o","i","c","e","L","i","n","e","I","d">>,
                    <<"P","u","r","c","h","a","s","e","I","n","v","o","i","c","e","I","d">>,
                    <<"R","e","a","l","E","s","t","a","t","e","O","b","j","e","c","t","I","d">>,
                    <<"R","e","a","l","E","s","t","a","t","e","O","b","j","e","c","t","N","a","m","e">>,
                    <<"A","m","o","u","n","t">>,
                    <<"L","e","d","g","e","r","A","c","c","o","u","n","t","N","a","m","e">> >>],
     [key |-> <<"O","w","n","e","r","s">>,
      fields |-> << <<"O","w","n","e","r","I","d">>,
                    <<"R","e","l","a","t","i","o","n","I","d">>,
                    <<"D","i","s","p","l","a","y","N","a","m","e">>,
                    <<"R","e","f","e","r","e","n","c","e">>,
                    <<"S","t","a","t","e">>,
                    <<"E","m","a","i","l">> >>],
     [key |-> <<"d","e","f","a","u","l","t">>,
      fields |-> << <<"I","d">>,
                    <<"R","e","f","e","r","e","n","c","e">>,
                    <<"D","i","s","p","l","a","y","N","a","m","e">>,
                    <<"N","a","m","e">> >>] >>

ENTITY_TOP_CAPS ==
  << [key |-> <<"f","i","n","a","n","c","i","a","l","m","u","t","a","t","i","o","n","s">>, cap |-> 100],
     [key |-> <<"j","o","u","r","n","a","l","p","o","s","t","t","r","a","n","s","a","c","t","i","o","n","s">>, cap |-> 100],
     [key |-> <<"s","a","l","e","s","i","n","v","o","i","c","e","l","i","n","e","s">>, cap |-> 200],
     [key |-> <<"p","u","r","c","h","a","s","e","i","n","v","o","i","c","e","l","i","n","e","s">>, cap |-> 200] >>

DEFAULT_TOP_CAP == 500

ENTITIES_REQUIRE_FILTER == { <<"f","i","n","a","n","c","i","a","l","m","u","t","a","t","i","o","n","s">>, <<"j","o","u","r","n","a","l","p","o","s","t","t","r","a","n","s","a","c","t","i","o","n","s">> }

\* (entityName || '').toLowerCase()
EntityKey(entityName) == IF entityName = Null THEN <<>> ELSE toLowerCase(entityName)

\* the lowercase keys under which the lookups lower[key] and ENTITY_TOP_CAPS[key]
\* find a property the table inherits from Object.prototype (a function or
\* an object: truthy, so no default is taken, neither iterable nor a number)
INHERITED_KEYS == { <<"c","o","n","s","t","r","u","c","t","o","r">>, <<"_","_","p","r","o","t","o","_","_">> }

\* lower[key] || catalog['default'], lower being the catalog under its
\* lowercased keys (a later key wins over an earlier one of the same spelling)
FieldsUnderKey(catalog, key) ==
  IF \E i \in 1..Len(catalog) : toLowerCase(catalog[i].key) = key
  THEN catalog[CHOOSE i \in 1..Len(catalog) :
                 /\ toLowerCase(catalog[i].key) = key
                 /\ \A j \in (i + 1)..Len(catalog) : toLowerCase(catalog[j].key) # key].fields
  ELSE catalog[CHOOSE i \in 1..Len(catalog) : catalog[i].key = <<"d","e","f","a","u","l","t">>].fields

\* a lookup without the default list
getKnownSortableFieldsOfCatalog(entityName) ==
  IF \E i \in 1..Len(KNOWN_SORTABLE_FIELDS) :
       toLowerCase(KNOWN_SORTABLE_FIELDS[i].key) = EntityKey(entityName)
  THEN FieldsUnderKey(KNOWN_SORTABLE_FIELDS, EntityKey(entityName))
  ELSE <<>>

\* KNOWN_SORTABLE_FIELDS_LOWER[key] || KNOWN_SORTABLE_FIELDS['default']
getKnownSortableFields(entityName) ==
  FieldsUnderKey(KNOWN_SORTABLE_FIELDS, EntityKey(entityName))

CapUnderKey(caps, key) ==
  IF \E i \in 1..Len(caps) : caps[i].key = key
  THEN caps[CHOOSE i \in 1..Len(caps) : caps[i].key = key].cap
  ELSE DEFAULT_TOP_CAP

getTopCap(entityName) == CapUnderKey(ENTITY_TOP_CAPS, EntityKey(entityName))

requiresFilter(entityName) == EntityKey(entityName) \in ENTITIES_REQUIRE_FILTER

\* knownFields.find(f => f.endsWith('Id') || f === 'Reference') || knownFields[0]
FirstSafeField(knownFields) ==
  IF knownFields = <<>> THEN Null
  ELSE IF \E i \in 1..Len(knownFields) :
            endsWith(knownFields[i], <<"I","d">>) \/ knownFields[i] = <<"R","e","f","e","r","e","n","c","e">>
  THEN knownFields[CHOOSE i \in 1..Len(knownFields) :
         /\ endsWith(knownFields[i], <<"I","d">>) \/ knownFields[i] = <<"R","e","f","e","r","e","n","c","e">>
         /\ \A j \in 1..(i - 1) :
              ~(endsWith(knownFields[j], <<"I","d">>) \/ knownFields[j] = <<"R","e","f","e","r","e","n","c","e">>)]
  ELSE knownFields[1]

findSafeOrderByField(entityName) == FirstSafeField(getKnownSortableFields(entityName))

\* buildCanonicalFieldMap(fields).get(lowerName): the last field with that
\* lowercase spelling, or undefined
CanonicalField(fields, lowerName) ==
  LET hit == {i \in 1..Len(fields) : fields[i] # <<>> /\ toLowerCase(fields[i]) = lowerName}
  IN  IF hit = {} THEN Null ELSE fields[CHOOSE i \in hit : \A j \in hit : j <= i]

(***************************************************************************)
(* Query sanitiser.                                                        *)
(***************************************************************************)
\* the $top block of validateAndFixQuery, top being params.get('$top')
capTop(params, top, cap) ==
  IF top = Null THEN params
  ELSE IF parseInt(top).nan \/ parseInt(top).n <= 0 THEN ParamsDelete(params, <<"$","t","o","p">>)
  ELSE IF parseInt(top).n > cap THEN ParamsSet(params, <<"$","t","o","p">>, String(cap))
  ELSE params

\* the $top block with a cap that is not a number: parsedTop > cap is false
dropTop(params, top) ==
  IF top = Null THEN params
  ELSE IF parseInt(top).nan \/ parseInt(top).n <= 0 THEN ParamsDelete(params, <<"$","t","o","p">>)
  ELSE params

enforceTopCap(params, entityName) ==
  IF EntityKey(entityName) \in INHERITED_KEYS THEN dropTop(params, ParamsGet(params, <<"$","t","o","p">>))
  ELSE capTop(params, ParamsGet(params, <<"$","t","o","p">>), getTopCap(entityName))

\* orderBy.split(',').map(s => s.trim()).filter(Boolean)
RECURSIVE TrimmedNonEmpty(_)
TrimmedNonEmpty(parts) ==
  IF parts = <<>> THEN <<>>
  ELSE IF trim(Head(parts)) = <<>> THEN TrimmedNonEmpty(Tail(parts))
  ELSE <<trim(Head(parts))>> \o TrimmedNonEmpty(Tail(parts))

\* a loop body that takes the direction as it is written
normalizeTokensAsWritten(tokens, knownFields) ==
  IF CanonicalField(knownFields, toLowerCase(trim(tokens[1]))) = Null THEN Null
  ELSE IF Len(tokens) >= 2 /\ tokens[2] = <<"d","e","s","c">>
  THEN CanonicalField(knownFields, toLowerCase(trim(tokens[1]))) \o <<" ","d","e","s","c">>
  ELSE CanonicalField(knownFields, toLowerCase(trim(tokens[1])))

\* one segment of the loop, from its tokens: the normalised segment, or Null
\* when its field is not a known field
normalizeTokens(tokens, knownFields) ==
  IF CanonicalField(knownFields, toLowerCase(trim(tokens[1]))) = Null THEN Null
  ELSE IF Len(tokens) >= 2 /\ toLowerCase(tokens[2]) = <<"d","e","s","c">>
  THEN CanonicalField(knownFields, toLowerCase(trim(tokens[1]))) \o <<" ","d","e","s","c">>
  ELSE CanonicalField(knownFields, toLowerCase(trim(tokens[1])))

normalizeSegment(segment, knownFields) ==
  normalizeTokens(splitWhiteSpace(segment), knownFields)

WithoutNull(n) == IF n = Null THEN <<>> ELSE <<n>>

RECURSIVE normalizeSegments(_, _)
normalizeSegments(segments, knownFields) ==
  IF segments = <<>> THEN <<>>
  ELSE WithoutNull(normalizeSegment(Head(segments), knownFields))
         \o normalizeSegments(Tail(segments), knownFields)

\* a fallback that looks for desc in the string as it is written
fallbackOrderByAsWritten(params, orderBy, safeField) ==
  IF safeField # Null
  THEN ParamsSet(params, <<"$","o","r","d","e","r","b","y">>,
                 safeField \o (IF includes(orderBy, <<"d","e","s","c">>) THEN <<" ","d","e","s","c">> ELSE <<>>))
  ELSE ParamsDelete(params, <<"$","o","r","d","e","r","b","y">>)

\* a fallback that writes the safe field in lower case
fallbackOrderByLowered(params, orderBy, safeField) ==
  IF safeField # Null
  THEN ParamsSet(params, <<"$","o","r","d","e","r","b","y">>,
                 toLowerCase(safeField)
                   \o (IF includes(toLowerCase(orderBy), <<"d","e","s","c">>) THEN <<" ","d","e","s","c">> ELSE <<>>))
  ELSE ParamsDelete(params, <<"$","o","r","d","e","r","b","y">>)

\* the fallback of the $orderby block: no segment names a known field
fallbackOrderBy(params, orderBy, safeField) ==
  IF safeField # Null
  THEN ParamsSet(params, <<"$","o","r","d","e","r","b","y">>,
                 safeField \o (IF includes(toLowerCase(orderBy), <<"d","e","s","c">>) THEN <<" ","d","e","s","c">> ELSE <<>>))
  ELSE ParamsDelete(params, <<"$","o","r","d","e","r","b","y">>)

\* the end of the $orderby block: some segments name known fields
rewriteOrderBy(params, orderBy, normalized) ==
  IF normalized # orderBy THEN ParamsSet(params, <<"$","o","r","d","e","r","b","y">>, normalized) ELSE params

chooseOrderBy(params, orderBy, entityName, normalizedSegments) ==
  IF normalizedSegments = <<>>
  THEN fallbackOrderBy(params, orderBy, findSafeOrderByField(entityName))
  ELSE rewriteOrderBy(params, orderBy, join(normalizedSegments, <<","," ">>))

\* the $orderby block of validateAndFixQuery, for a non-empty orderBy
fixOrderBy(params, orderBy, entityName) ==
  chooseOrderBy(params, orderBy, entityName,
                normalizeSegments(TrimmedNonEmpty(split(orderBy, ",")),
                                  getKnownSortableFields(entityName)))

sanitise(search, entityName, orderBy) ==
  IF orderBy = Null \/ orderBy = <<>> THEN enforceTopCap(search, entityName)
  ELSE fixOrderBy(enforceTopCap(search, entityName), orderBy, entityName)

validateAndFixQuery(search, entityName) ==
  IF search = <<>> \/ entityName = Null THEN search
  ELSE sanitise(search, entityName, ParamsGet(search, <<"$","o","r","d","e","r","b","y">>))

\* validateAndFixQuery throws instead of returning: buildCanonicalFieldMap
\* iterates over knownFields, and what the lookup finds under an inherited
\* key is not iterable
validateAndFixQueryThrows(search, entityName) ==
  /\ search # <<>> /\ entityName # Null
  /\ ParamsGet(search, <<"$","o","r","d","e","r","b","y">>) \notin {Null, <<>>}
  /\ EntityKey(entityName) \in INHERITED_KEYS

(***************************************************************************)
(* JSON.  A document is a tagged tree; a body (the bytes on the wire) is a *)
(* document together with the formatting it was written in, or text that   *)
(* is not JSON.  JSON.parse forgets the formatting and JSON.stringify      *)
(* writes the compact one, so a re-serialised body differs from a pretty   *)
(* original.                                                               *)
(***************************************************************************)
JNull == [t |-> "null"]

\* undefined: what a missing key reads as
Undefined == [t |-> "undefined"]

JNum(n) == [t |-> "number", n |-> n]

JBool(b) == [t |-> "boolean", b |-> b]

JStr(s) == [t |-> "string", s |-> s]

JArr(items) == [t |-> "array", items |-> items]

\* members: a sequence of [key, val], keys distinct
JObj(members) == [t |-> "object", members |-> members]

Member(k, v) == [key |-> k, val |-> v]

TextBody(text) == [format |-> "text", text |-> text]

JsonBody(format, doc) == [format |-> format, doc |-> doc]

IsJson(body) == body.format # "text"

\* JSON.stringify(doc)
stringify(doc) == JsonBody("compact", doc)

HasKey(doc, key) ==
  doc.t = "object" /\ \E i \in 1..Len(doc.members) : doc.members[i].key = key

\* doc?.[key]
GetKey(doc, key) ==
  IF HasKey(doc, key)
  THEN doc.members[CHOOSE i \in 1..Len(doc.members) : doc.members[i].key = key].val
  ELSE Undefined

\* { ...doc, [key]: val } for a key the object already has
WithKey(doc, key, val) ==
  JObj([i \in 1..Len(doc.members) |->
          IF doc.members[i].key = key THEN Member(key, val) ELSE doc.members[i]])

(***************************************************************************)
(* Response redactor.                                                      *)
(***************************************************************************)
FORBIDDEN_OWNER_NAMES == { <<"w","a","l","s"," ","h","u","r","e","n">>, <<"g","r","e","e","n","h","o","r","n"," ","p","r","o","p","e","r","t","i","e","s"," ","b","v">> }

RECURSIVE objectContainsForbiddenOwnerNameShallow(_)
objectContainsForbiddenOwnerNameShallow(value) ==
  CASE value.t = "string" -> trim(toLowerCase(value.s)) \in FORBIDDEN_OWNER_NAMES
    [] value.t = "object" ->
         \E i \in 1..Len(value.members) :
           /\ ~startsWith(value.members[i].key, <<"@","o","d","a","t","a",".">>)
           /\ value.members[i].val.t = "string"
           /\ objectContainsForbiddenOwnerNameShallow(value.members[i].val)
    [] OTHER -> FALSE

\* The source walks the value with an explicit stack and a visited set; a
\* parsed JSON document is a tree, so the walk visits every node once.
RECURSIVE objectContainsForbiddenOwnerName(_)
objectContainsForbiddenOwnerName(value) ==
  CASE value.t = "string" -> toLowerCase(trim(value.s)) \in FORBIDDEN_OWNER_NAMES
    [] value.t = "array" ->
         \E i \in 1..Len(value.items) : objectContainsForbiddenOwnerName(value.items[i])
    [] value.t = "object" ->
         \E i \in 1..Len(value.members) :
           /\ ~startsWith(value.members[i].key, <<"@","o","d","a","t","a",".">>)
           /\ objectContainsForbiddenOwnerName(value.members[i].val)
    [] OTHER -> FALSE

RECURSIVE FilterRows(_)
FilterRows(rows) ==
  IF rows = <<>> THEN <<>>
  ELSE IF objectContainsForbiddenOwnerName(Head(rows)) THEN FilterRows(Tail(rows))
  ELSE <<Head(rows)>> \o FilterRows(Tail(rows))

\* Array.isArray(parsed?.value): whether the document is a collection envelope
HasValueArray(parsed) == GetKey(parsed, <<"v","a","l","u","e">>).t = "array"

\* parsed.value of a collection envelope
ValueRows(parsed) == GetKey(parsed, <<"v","a","l","u","e">>).items

redactAlwaysReserialise(responseBody) ==
  IF ~IsJson(responseBody) \/ ~HasValueArray(responseBody.doc) THEN responseBody
  ELSE stringify(WithKey(responseBody.doc, <<"v","a","l","u","e">>, JArr(FilterRows(ValueRows(responseBody.doc)))))

\* the body that redactForbiddenOwnersFromODataJson returns
\* a redactor that answers with the value array alone
redactValueOnly(responseBody) ==
  IF ~IsJson(responseBody) \/ ~HasValueArray(responseBody.doc) THEN responseBody
  ELSE IF Len(FilterRows(ValueRows(responseBody.doc))) = Len(ValueRows(responseBody.doc))
  THEN responseBody
  ELSE stringify(JObj(<<Member(<<"v","a","l","u","e">>, JArr(FilterRows(ValueRows(responseBody.doc))))>>))

redactForbiddenOwnersFromODataJson(responseBody) ==
  IF ~IsJson(responseBody) THEN responseBody
  ELSE LET parsed == responseBody.doc
       IN  IF ~HasValueArray(parsed) THEN responseBody
           ELSE LET values   == ValueRows(parsed)
                    filtered == FilterRows(values)
                IN  IF Len(filtered) = Len(values) THEN responseBody
                    ELSE stringify(WithKey(parsed, <<"v","a","l","u","e">>, JArr(filtered)))

(***************************************************************************)
(* Token manager.                                                          *)
(***************************************************************************)
\* the 5 minute buffer of getBloxsToken (300000 ms)
TOKEN_REFRESH_BUFFER == 300

\* the fallback lifetime of a token without a usable expiry (55 * 60 * 1000 ms)
TOKEN_FALLBACK_LIFETIME == 3300

\* The payload segments the auth endpoint of this model issues, with what
\* base64UrlDecodeToString and JSON.parse make of each: exp is the numeric
\* exp of the payload, and json is FALSE for a segment that does not decode
\* to JSON, numeric FALSE for a payload without a numeric exp.
JwtPayloads ==
  << [segment |-> <<"e","6","0","0">>,  json |-> TRUE,  numeric |-> TRUE,  exp |-> 1768061400],
     [segment |-> <<"e","0">>,    json |-> TRUE,  numeric |-> TRUE,  exp |-> 0],
     [segment |-> <<"e","2","0","0","1">>, json |-> TRUE,  numeric |-> TRUE,  exp |-> 1000000000],
     [segment |-> <<"n","o","e","x","p">>, json |-> TRUE,  numeric |-> FALSE, exp |-> 0],
     [segment |-> <<"j","u","n","k">>,  json |-> FALSE, numeric |-> FALSE, exp |-> 0] >>

DecodePayload(segment) ==
  IF \E i \in 1..Len(JwtPayloads) : JwtPayloads[i].segment = segment
  THEN JwtPayloads[CHOOSE i \in 1..Len(JwtPayloads) : JwtPayloads[i].segment = segment]
  ELSE [segment |-> segment, json |-> FALSE, numeric |-> FALSE, exp |-> 0]

\* getJwtExpiryMs, in seconds; null is 0 (the caller tests it for truthiness)
getJwtExpiryMs(token) ==
  IF token = Null \/ token = <<>> THEN 0
  ELSE LET parts == split(token, ".")
       IN  IF Len(parts) # 3 THEN 0
           ELSE LET payload == DecodePayload(parts[2])
                IN  IF payload.json /\ payload.numeric THEN payload.exp ELSE 0

\* days from 1970-01-01 to the first day of a month, plus day - 1: Date.UTC
\* carries a day beyond the month's end into the next month
DaysFromCivil(y, m, d) ==
  LET yy  == IF m <= 2 THEN y - 1 ELSE y
      era == yy \div 400
      yoe == yy - era * 400
      mp  == IF m > 2 THEN m - 3 ELSE m + 9
      doy == (153 * mp + 2) \div 5 + d - 1
      doe == yoe * 365 + yoe \div 4 - yoe \div 100 + doy
  IN  era * 146097 + doe - 719468

\* Date.UTC(year, monthIndex, day, hour, minute, second), in seconds
DateUTC(year, monthIndex, day, hour, minute, second) ==
  DaysFromCivil(IF year \in 0..99 THEN 1900 + year ELSE year, monthIndex + 1, day) * 86400
    + hour * 3600 + minute * 60 + second

\* toUtcMs, in seconds; null is 0 (the caller tests it for truthiness)
toUtcMs(year, month, day, hour, minute, second) ==
  IF month < 1 \/ month > 12 \/ day < 1 \/ day > 31 THEN 0
  ELSE DateUTC(year, month - 1, day, hour, minute, second)

AllDigits(s, lo, hi) == Len(s) >= lo /\ Len(s) <= hi /\ \A i \in 1..Len(s) : IsDigit(s[i])

\* the groups of a match as numbers; a missing group is '0'
MatchGroups(date, time) ==
  [ok |-> TRUE, a |-> parseInt(date[1]).n, b |-> parseInt(date[2]).n,
   year   |-> parseInt(date[3]).n,
   hour   |-> IF Len(time) >= 1 THEN parseInt(time[1]).n ELSE 0,
   minute |-> IF Len(time) >= 2 THEN parseInt(time[2]).n ELSE 0,
   second |-> IF Len(time) >= 3 THEN parseInt(time[3]).n ELSE 0]

MatchParts(tokens, date, time) ==
  IF /\ Len(date) = 3 /\ AllDigits(date[1], 1, 2) /\ AllDigits(date[2], 1, 2)
     /\ AllDigits(date[3], 4, 4)
     /\ \/ Len(tokens) = 1
        \/ /\ Len(tokens) = 2
           /\ Len(time) \in {2, 3}
           /\ AllDigits(time[1], 1, 2)
           /\ \A i \in 2..Len(time) : AllDigits(time[i], 2, 2)
  THEN MatchGroups(date, time)
  ELSE [ok |-> FALSE]

MatchTokens(tokens) ==
  IF tokens = <<>> THEN [ok |-> FALSE]
  ELSE MatchParts(tokens, split(tokens[1], "/"),
                  IF Len(tokens) >= 2 THEN split(tokens[2], ":") ELSE <<>>)

\* /^(\d{1,2})\/(\d{1,2})\/(\d{4})(?:\s+(\d{1,2}):(\d{2})(?::(\d{2}))?)?$/ on the
\* trimmed string: the six groups as numbers, or ok FALSE
MatchExpiration(expiration) == MatchTokens(splitWhiteSpace(trim(expiration)))

\* ddFirst ?? mmFirst
FirstValid(ddFirst, mmFirst) == IF ddFirst # 0 THEN ddFirst ELSE mmFirst

ExpirationOfMatch(match) ==
  IF ~match.ok THEN 0
  ELSE FirstValid(toUtcMs(match.year, match.b, match.a, match.hour, match.minute, match.second),
                  toUtcMs(match.year, match.a, match.b, match.hour, match.minute, match.second))

\* parseBloxsExpirationMs, in seconds; null is 0 (the caller tests it for
\* truthiness)
parseBloxsExpirationMs(expiration) ==
  IF expiration = Null \/ expiration = <<>> THEN 0
  ELSE ExpirationOfMatch(MatchExpiration(expiration))

TokenIsFreshNoBuffer(token, expiry, t) == token # Null /\ token # <<>> /\ expiry > t

TokenIsFreshWideBuffer(token, expiry, t) ==
  token # Null /\ token # <<>> /\ expiry > t + 2 * TOKEN_REFRESH_BUFFER

\* cachedToken && tokenExpiry > now + 300000
TokenIsFresh(token, expiry, t) ==
  token # Null /\ token # <<>> /\ expiry > t + TOKEN_REFRESH_BUFFER

\* parsedExpiry || (now + 55 * 60 * 1000)
OrFallback(parsedExpiry, t) ==
  IF parsedExpiry # 0 THEN parsedExpiry ELSE t + TOKEN_FALLBACK_LIFETIME

PreferJwt(jwtExpiryMs, data, t) ==
  IF jwtExpiryMs # 0 THEN jwtExpiryMs
  ELSE OrFallback(parseBloxsExpirationMs(data.expiration), t)

\* the expiry getBloxsToken stores for an auth response read at instant t
ExpiryOf(data, t) == PreferJwt(getJwtExpiryMs(data.token), data, t)

(***************************************************************************)
(* Request router: the responses it builds and the decisions it takes.     *)
(* A request is [method, authorization, pathname, search]; authorization   *)
(* is Null when the header is absent.  A response is [status, body,        *)
(* headers]; NoResponse stands for "no response yet".                      *)
(***************************************************************************)
ALLOWED_METHODS == {"GET", "OPTIONS"}

ENTITY_PATH_ALIASES ==
  << [segment |-> <<"O","w","n","e","r","s">>, canonical |-> <<"o","w","n","e","r","s">>],
     [segment |-> <<"O","W","N","E","R","S">>, canonical |-> <<"o","w","n","e","r","s">>],
     [segment |-> <<"C","o","m","m","e","r","c","i","a","l","O","v","e","r","v","i","e","w">>, canonical |-> <<"C","o","m","m","e","r","c","i","a","l","O","v","e","r","v","i","e","w">>],
     [segment |-> <<"c","o","m","m","e","r","c","i","a","l","o","v","e","r","v","i","e","w">>, canonical |-> <<"C","o","m","m","e","r","c","i","a","l","O","v","e","r","v","i","e","w">>] >>

\* what the lookup of line 335 finds for a segment that is no key of the
\* literal: a property the literal inherits from Object.prototype, written out
\* by the template string
OBJECT_PROTOTYPE ==
  << [segment |-> <<"c","o","n","s","t","r","u","c","t","o","r">>, canonical |-> <<"f","u","n","c","t","i","o","n"," ","O","b","j","e","c","t","(",")"," ","{"," ","[","n","a","t","i","v","e"," ","c","o","d","e","]"," ","}">>],
     [segment |-> <<"t","o","S","t","r","i","n","g">>, canonical |-> <<"f","u","n","c","t","i","o","n"," ","t","o","S","t","r","i","n","g","(",")"," ","{"," ","[","n","a","t","i","v","e"," ","c","o","d","e","]"," ","}">>] >>

NoBody == [format |-> "none"]

NoResponse == [status |-> 0, body |-> NoBody, headers |-> {}]

AllowOrigin == <<"Access-Control-Allow-Origin", "*">>

AllowMethods == <<"Access-Control-Allow-Methods", "GET, OPTIONS">>

AllowHeaders == <<"Access-Control-Allow-Headers", "Authorization, Content-Type">>

ContentTypeJson == <<"Content-Type", "application/json">>

handleCORS ==
  [status |-> 204, body |-> NoBody,
   headers |-> {AllowOrigin, AllowMethods, AllowHeaders, <<"Access-Control-Max-Age", "86400">>}]

methodNotAllowed ==
  [status |-> 405,
   body |-> stringify(JObj(<<Member(<<"e","r","r","o","r">>, JStr(<<"M","e","t","h","o","d"," ","n","o","t"," ","a","l","l","o","w","e","d">>))>>)),
   headers |-> {ContentTypeJson, AllowOrigin, AllowMethods, AllowHeaders}]

jsonError(message, status) ==
  [status |-> status,
   body |-> stringify(JObj(<<Member(<<"e","r","r","o","r">>, JStr(message))>>)),
   headers |-> {ContentTypeJson, AllowOrigin}]

\* s.replace(p, r): the first occurrence only
replace(s, p, r) ==
  IF includes(s, p)
  THEN LET i == CHOOSE k \in 1..(Len(s) - Len(p) + 1) :
                  /\ SubSeq(s, k, k + Len(p) - 1) = p
                  /\ \A j \in 1..(k - 1) : SubSeq(s, j, j + Len(p) - 1) # p
       IN  SubSeq(s, 1, i - 1) \o r \o SubSeq(s, i + Len(p), Len(s))
  ELSE s

CheckCredentialsHeaderOnly(authHeader, proxyApiKey) ==
  IF authHeader = Null \/ authHeader = <<>> \/ ~startsWith(authHeader, <<"B","e","a","r","e","r"," ">>)
  THEN jsonError(<<"M","i","s","s","i","n","g"," ","o","r"," ","i","n","v","a","l","i","d"," ","A","u","t","h","o","r","i","z","a","t","i","o","n"," ","h","e","a","d","e","r">>, 401)
  ELSE NoResponse

\* the credential check of fetch: the 401 it replies, or NoResponse when the
\* request may pass
CheckCredentials(authHeader, proxyApiKey) ==
  IF authHeader = Null \/ authHeader = <<>> \/ ~startsWith(authHeader, <<"B","e","a","r","e","r"," ">>)
  THEN jsonError(<<"M","i","s","s","i","n","g"," ","o","r"," ","i","n","v","a","l","i","d"," ","A","u","t","h","o","r","i","z","a","t","i","o","n"," ","h","e","a","d","e","r">>, 401)
  ELSE IF replace(authHeader, <<"B","e","a","r","e","r"," ">>, <<>>) # proxyApiKey
  THEN jsonError(<<"I","n","v","a","l","i","d"," ","A","P","I"," ","k","e","y">>, 401)
  ELSE NoResponse

\* the first index of character c in s, 0 when there is none (indexOf + 1)
IndexOfChar(s, c) ==
  IF \E i \in 1..Len(s) : s[i] = c
  THEN CHOOSE i \in 1..Len(s) : s[i] = c /\ \A j \in 1..(i - 1) : s[j] # c
  ELSE 0

normalizeODataPathname(pathname) ==
  IF ~startsWith(pathname, <<"/","o","d","a","t","a","f","e","e","d","/">>) THEN pathname
  ELSE LET rest         == SubSeq(pathname, Len(<<"/","o","d","a","t","a","f","e","e","d","/">>) + 1, Len(pathname))
           slashIndex   == IndexOfChar(rest, "/")
           firstSegment == IF slashIndex = 0 THEN rest ELSE SubSeq(rest, 1, slashIndex - 1)
           properties   == ENTITY_PATH_ALIASES \o OBJECT_PROTOTYPE
           hit == {i \in 1..Len(properties) : properties[i].segment = firstSegment}
       IN  IF startsWith(firstSegment, <<"$">>) \/ hit = {} THEN pathname
           ELSE <<"/","o","d","a","t","a","f","e","e","d","/">> \o properties[CHOOSE i \in hit : TRUE].canonical
                  \o (IF slashIndex = 0 THEN <<>> ELSE SubSeq(rest, slashIndex, Len(rest)))

\* pathname.match(/\/odatafeed\/([^/?]+)/): the captured segment, or Null
EntityOf(pathname) ==
  LET prefix == <<"/","o","d","a","t","a","f","e","e","d","/">>
      n      == Len(prefix)
      starts == {i \in 1..(Len(pathname) - n) :
                   /\ SubSeq(pathname, i, i + n - 1) = prefix
                   /\ pathname[i + n] \notin {"/", "?"}}
  IN  IF starts = {} THEN Null
      ELSE LET i    == CHOOSE k \in starts : \A j \in starts : k <= j
               from == i + n
               to   == CHOOSE e \in from..Len(pathname) :
                         /\ \A j \in from..e : pathname[j] \notin {"/", "?"}
                         /\ (e = Len(pathname) \/ pathname[e + 1] \in {"/", "?"})
           IN  SubSeq(pathname, from, to)

\* `Bearer ${token}`
BearerOf(token) == <<"B","e","a","r","e","r"," ">> \o (IF token = Null THEN <<"u","n","d","e","f","i","n","e","d">> ELSE token)

MissingFilterMessage(entityName) ==
  <<"M","i","s","s","i","n","g"," ","r","e","q","u","i","r","e","d"," ","$","f","i","l","t","e","r"," ","f","o","r"," ">> \o entityName
    \o <<"."," ","A","d","d"," ","a"," ","r","e","s","t","r","i","c","t","i","v","e"," ","$","f","i","l","t","e","r"," ","(","a","n","d"," ","k","e","e","p"," ","$","t","o","p"," ","<","="," ">> \o String(getTopCap(entityName)) \o <<")",".">>

\* The request sent to the auth endpoint.
AuthRequest(environment) ==
  [to |-> "auth", method |-> "POST", pathname |-> <<"/","A","u","t","h","o","r","i","z","a","t","i","o","n">>, search |-> <<>>,
   authorization |-> Null,
   body |-> <<environment.BLOXS_API_KEY, environment.BLOXS_API_SECRET>>]

\* the guardrail and the upstream call of fetch
Guarded(request, token, normalizedPathname, entityName, fixedSearch) ==
  IF requiresFilter(entityName) /\ ~ParamsHas(fixedSearch, <<"$","f","i","l","t","e","r">>)
  THEN [kind |-> "respond", entityName |-> entityName,
        response |-> jsonError(MissingFilterMessage(entityName), 400)]
  ELSE [kind |-> "fetch", entityName |-> entityName,
        upstream |-> [to |-> "data", method |-> request.method,
                      pathname |-> normalizedPathname, search |-> fixedSearch,
                      authorization |-> BearerOf(token), body |-> <<>>]]

ForEntity(request, token, normalizedPathname, entityName) ==
  IF validateAndFixQueryThrows(request.search, entityName)
  THEN [kind |-> "throw", entityName |-> entityName]
  ELSE Guarded(request, token, normalizedPathname, entityName,
               validateAndFixQuery(request.search, entityName))

ForPath(request, token, normalizedPathname) ==
  ForEntity(request, token, normalizedPathname, EntityOf(normalizedPathname))

\* fetch from the entity extraction to the upstream call, for a request that
\* holds a token: the 400 it replies, or the data request it sends
Forward(request, token) == ForPath(request, token, normalizeODataPathname(request.pathname))

\* The first match of /property named '([^']+)'/ in a text, or Null.
MatchPropertyNamed(text) ==
  LET p      == <<"p","r","o","p","e","r","t","y"," ","n","a","m","e","d"," ","'">>
      n      == Len(p)
      starts == {i \in 1..(Len(text) - n - 1) :
                   /\ SubSeq(text, i, i + n - 1) = p
                   /\ text[i + n] # "'"
                   /\ \E e \in (i + n + 1)..Len(text) : text[e] = "'"}
  IN  IF starts = {} THEN Null
      ELSE LET i    == CHOOSE k \in starts : \A j \in starts : k <= j
               from == i + n
               to   == CHOOSE e \in from..(Len(text) - 1) :
                         text[e + 1] = "'" /\ \A j \in from..e : text[j] # "'"
           IN  SubSeq(text, from, to)

\* the strings of a document in document order (the places of a JSON text
\* where the pattern above can match)
RECURSIVE StringsOf(_)
StringsOf(doc) ==
  CASE doc.t = "string" -> <<doc.s>>
    [] doc.t = "array" ->
         IF doc.items = <<>> THEN <<>>
         ELSE StringsOf(Head(doc.items)) \o StringsOf(JArr(Tail(doc.items)))
    [] doc.t = "object" ->
         IF doc.members = <<>> THEN <<>>
         ELSE StringsOf(Head(doc.members).val) \o StringsOf(JObj(Tail(doc.members)))
    [] OTHER -> <<>>

\* responseBody.match(/property named '([^']+)'/)
InvalidFieldOf(responseBody) ==
  IF ~IsJson(responseBody) THEN MatchPropertyNamed(responseBody.text)
  ELSE LET texts == StringsOf(responseBody.doc)
           hit   == {i \in 1..Len(texts) : MatchPropertyNamed(texts[i]) # Null}
       IN  IF hit = {} THEN Null
           ELSE MatchPropertyNamed(texts[CHOOSE i \in hit : \A j \in hit : i <= j])

\* a JSON value is truthy
Truthy(doc) ==
  CASE doc.t \in {"null", "undefined"} -> FALSE
    [] doc.t = "string" -> doc.s # <<>>
    [] doc.t = "number" -> doc.n # 0
    [] doc.t = "boolean" -> doc.b
    [] OTHER -> TRUE

\* a string node holding the bytes of a body
RawText(body) == IF IsJson(body) THEN [t |-> "raw", body |-> body] ELSE JStr(body.text)

JText(text) == IF text = Null THEN JNull ELSE JStr(text)

RECURSIVE JTexts(_)
JTexts(texts) == IF texts = <<>> THEN <<>> ELSE <<JStr(Head(texts))>> \o JTexts(Tail(texts))

\* parsed.error || { error: 'Unknown error', details: responseBody }
ErrorInfoOf(responseBody, parsedError) ==
  IF Truthy(parsedError) THEN parsedError
  ELSE JObj(<<Member(<<"e","r","r","o","r">>, JStr(<<"U","n","k","n","o","w","n"," ","e","r","r","o","r">>)), Member(<<"d","e","t","a","i","l","s">>, RawText(responseBody))>>)

\* errorInfo.message alone
MessageOnly(message, errorInfo) == message

\* errorInfo.message || errorInfo
MessageOr(message, errorInfo) == IF Truthy(message) THEN message ELSE errorInfo

\* helpfulError.availableFields as JSON.stringify writes it: the list of
\* the entity, {} for the object and nothing for the function that the
\* lookup finds under an inherited key
AvailableFields(entityName) ==
  IF EntityKey(entityName) = <<"c","o","n","s","t","r","u","c","t","o","r">> THEN <<>>
  ELSE IF EntityKey(entityName) = <<"_","_","p","r","o","t","o","_","_">> THEN <<Member(<<"a","v","a","i","l","a","b","l","e","F","i","e","l","d","s">>, JObj(<<>>))>>
  ELSE <<Member(<<"a","v","a","i","l","a","b","l","e","F","i","e","l","d","s">>, JArr(JTexts(getKnownSortableFields(entityName))))>>

HelpfulError(status, entityName, errorInfo, invalidField) ==
  <<Member(<<"e","r","r","o","r">>, MessageOr(GetKey(errorInfo, <<"m","e","s","s","a","g","e">>), errorInfo)),
    Member(<<"s","t","a","t","u","s">>, JNum(status)),
    Member(<<"e","n","t","i","t","y">>, JText(entityName))>>
  \o (IF invalidField = Null
      THEN <<Member(<<"s","u","g","g","e","s","t","i","o","n">>, JNull), Member(<<"a","v","a","i","l","a","b","l","e","F","i","e","l","d","s">>, JNull)>>
      ELSE <<Member(<<"s","u","g","g","e","s","t","i","o","n">>,
                    JStr(<<"T","h","e"," ","f","i","e","l","d"," ","'">> \o invalidField \o <<"'"," ","d","o","e","s"," ","n","o","t"," ","e","x","i","s","t"," ","o","n"," ">>
                           \o (IF entityName = Null THEN <<"n","u","l","l">> ELSE entityName) \o <<".">>))>>
           \o AvailableFields(entityName)
           \o <<Member(<<"i","n","v","a","l","i","d","F","i","e","l","d">>, JStr(invalidField))>>)

handleODataError(status, responseBody, entityName) ==
  [status |-> status,
   body |-> JsonBody("pretty", JObj(HelpfulError(status, entityName,
              ErrorInfoOf(responseBody,
                          IF IsJson(responseBody) THEN GetKey(responseBody.doc, <<"e","r","r","o","r">>)
                          ELSE Undefined),
              InvalidFieldOf(responseBody)))),
   headers |-> {ContentTypeJson, AllowOrigin}]

\* the successful response of fetch
\* a response that answers every success with 200
DataResponseOk(status, redactedBody) ==
  [status |-> 200, body |-> redactedBody,
   headers |-> {ContentTypeJson, AllowOrigin, AllowMethods, AllowHeaders}]

DataResponse(status, redactedBody) ==
  [status |-> status, body |-> redactedBody,
   headers |-> {ContentTypeJson, AllowOrigin, AllowMethods, AllowHeaders}]

\* the 2xx statuses of a response that has no body
NULL_BODY_STATUS == {204, 205}

\* what new Response(redactedBody, {status, headers}) comes to inside the try
\* of fetch: the response, or, for a status without body, the 502 of the
\* TypeError that a runtime which follows the Fetch standard throws for a
\* body that is not null (the text read from the upstream is '', never
\* null); a runtime that lets an empty body pass builds the response
Constructed(status, redactedBody) ==
  IF status \in NULL_BODY_STATUS
  THEN { DataResponse(status, redactedBody),
         jsonError(<<"F","a","i","l","e","d"," ","t","o"," ","f","e","t","c","h"," ","f","r","o","m"," ","B","l","o","x","s",":"," ","R","e","s","p","o","n","s","e"," ","w","i","t","h"," ","n","u","l","l"," ","b","o","d","y"," ","s","t","a","t","u","s"," ","(","1","0","1",","," ","2","0","4",","," ","2","0","5",","," ","o","r"," ","3","0","4",")"," ","c","a","n","n","o","t"," ","h","a","v","e"," ","a"," ","b","o","d","y",".">>, 502) }
  ELSE { DataResponse(status, redactedBody) }

\* handleMetadataSummary: the static catalog document, abridged to its first key
handleMetadataSummary ==
  [status |-> 200,
   body |-> JsonBody("pretty", JObj(<<Member(<<"d","e","s","c","r","i","p","t","i","o","n">>,
       JStr(<<"A","v","a","i","l","a","b","l","e"," ","O","D","a","t","a"," ","e","n","t","i","t","i","e","s"," ","a","n","d"," ","t","h","e","i","r"," ","c","o","m","m","o","n","l","y"," ","u","s","e","d"," ","f","i","e","l","d","s">>))>>)),
   headers |-> {ContentTypeJson, AllowOrigin}]

(***************************************************************************)
(* Schema learner.  A KV store is a set of [key, value] entries with       *)
(* distinct keys; a value is the JSON document that was put.  A KV         *)
(* operation takes effect at the step that resumes the task awaiting it.   *)
(***************************************************************************)
LEARN_INDEX_KEY == <<"l","e","a","r","n",":","i","n","d","e","x",":","v","1">>

\* Math.min(values.length, 5)
LEARN_SAMPLE_ROWS == 5

\* 24 * 60 * 60 * 1000 ms
LEARN_REFRESH_INTERVAL == 86400

\* the characters in code-unit order (Array.prototype.sort compares code
\* units); the grave accent, which no text here holds, is left out
AsciiOrder ==
  << "\t"," ","!","\"","#","$","%","&","'","(",")","*","+",",","-",".",
     "/","0","1","2","3","4","5","6","7","8","9",":",";","<","=",">",
     "?","@","A","B","C","D","E","F","G","H","I","J","K","L","M","N",
     "O","P","Q","R","S","T","U","V","W","X","Y","Z","[","\\","]","^",
     "_","a","b","c","d","e","f","g","h","i","j","k","l","m","n",
     "o","p","q","r","s","t","u","v","w","x","y","z","{","|","}","~" >>

CharCode(c) == CHOOSE i \in 1..Len(AsciiOrder) : AsciiOrder[i] = c

RECURSIVE TextLess(_, _)
TextLess(a, b) ==
  IF b = <<>> THEN FALSE
  ELSE IF a = <<>> THEN TRUE
  ELSE IF Head(a) = Head(b) THEN TextLess(Tail(a), Tail(b))
  ELSE CharCode(Head(a)) < CharCode(Head(b))

\* the texts of a set in sort() order
RECURSIVE SortTexts(_)
SortTexts(texts) ==
  IF texts = {} THEN <<>>
  ELSE LET least == CHOOSE x \in texts : \A y \in texts \ {x} : TextLess(x, y)
       IN  <<least>> \o SortTexts(texts \ {least})

\* items.sort() of an array that may repeat a text
\* an index that is left in the order of arrival
sortItemsNot(items) == items

RECURSIVE sortItems(_)
sortItems(items) ==
  IF items = <<>> THEN <<>>
  ELSE LET i == CHOOSE k \in 1..Len(items) :
                  \A j \in 1..Len(items) : ~TextLess(items[j], items[k])
       IN  <<items[i]>> \o sortItems(SubSeq(items, 1, i - 1) \o SubSeq(items, i + 1, Len(items)))

KvGet(store, key) ==
  IF \E e \in store : e.key = key THEN (CHOOSE e \in store : e.key = key).value ELSE JNull

KvPut(store, key, value) == {e \in store : e.key # key} \cup {[key |-> key, value |-> value]}

\* the environment: ENABLE_LEARNING is the text of the flag (empty when unset),
\* LEARNING_KV whether a KV namespace is bound
isLearningEnabledWhenSet(environment) == environment.ENABLE_LEARNING # <<>>

isLearningEnabled(environment) ==
  toLowerCase(environment.ENABLE_LEARNING) \in { <<"1">>, <<"t","r","u","e">>, <<"y","e","s">> }

MathMin(a, b) == IF a <= b THEN a ELSE b

IdleTask == [pc |-> "idle"]

DiscoveredFieldsAndValues(values, sampleCount) ==
  UNION { {values[i].members[k].key : k \in 1..Len(values[i].members)}
            \cup {values[i].members[k].val.s :
                    k \in {m \in 1..Len(values[i].members) : values[i].members[m].val.t = "string"}}
          : i \in {j \in 1..sampleCount : values[j].t = "object"} }

\* the top-level keys of the sampled rows
DiscoveredFields(values, sampleCount) ==
  UNION { {values[i].members[k].key : k \in {m \in 1..Len(values[i].members) :
                /\ values[i].members[m].key # <<>>
                /\ ~startsWith(values[i].members[m].key, <<"@","o","d","a","t","a",".">>)}}
          : i \in {j \in 1..sampleCount : values[j].t = "object"} }

\* maybeLearnFromOData up to its first await: the task that awaits the KV
\* read of the entity's record, or IdleTask when it returned
learnStart(entityName, responseBody, environment, t) ==
  IF ~isLearningEnabled(environment) \/ ~environment.LEARNING_KV THEN IdleTask
  ELSE IF entityName = Null \/ entityName = <<>> THEN IdleTask
  ELSE IF ~IsJson(responseBody) THEN IdleTask
  ELSE IF ~HasValueArray(responseBody.doc) THEN IdleTask
  ELSE LET values      == ValueRows(responseBody.doc)
           sampleCount == MathMin(Len(values), LEARN_SAMPLE_ROWS)
           discovered  == DiscoveredFields(values, sampleCount)
       IN  IF values = <<>> \/ discovered = {} THEN IdleTask
           ELSE [pc |-> "getEntity", entityName |-> entityName,
                 entityKey |-> toLowerCase(entityName), discovered |-> discovered,
                 sampleCount |-> sampleCount, now |-> t, pending |-> JNull]

\* whether maybeLearnFromOData gets past its guards to JSON.parse
learnParses(entityName, environment) ==
  /\ isLearningEnabled(environment) /\ environment.LEARNING_KV
  /\ entityName # Null /\ entityName # <<>>

\* the steps maybeLearnFromOData has run when it reaches its first await or
\* returns before it, given the task it has become
learnBegun(parses, started) ==
  IF ~parses THEN <<>>
  ELSE IF started = IdleTask THEN <<"parse">>
  ELSE <<"parse", started.pc>>

\* the KV operation a resumed task issues, if it issues one
learnIssued(trace, resumed) ==
  IF resumed = IdleTask THEN trace ELSE Append(trace, resumed.pc)

\* new Date(now).toISOString(): a string node that renders the instant
IsoString(t) == [t |-> "string", iso |-> t]

\* new Set(Array.isArray(existing?.fields) ? existing.fields : [])
ExistingFields(existing) ==
  IF GetKey(existing, <<"f","i","e","l","d","s">>).t = "array"
  THEN {GetKey(existing, <<"f","i","e","l","d","s">>).items[i].s : i \in 1..Len(GetKey(existing, <<"f","i","e","l","d","s">>).items)}
  ELSE {}

\* a learner that takes no record for written
LastWriteOfNone(existing) == 0

\* Number(existing?.lastWriteMs ?? 0)
LastWriteOf(existing) ==
  IF GetKey(existing, <<"l","a","s","t","W","r","i","t","e","M","s">>).t = "number" THEN GetKey(existing, <<"l","a","s","t","W","r","i","t","e","M","s">>).n ELSE 0

LearnedRecord(task, fields) ==
  JObj(<<Member(<<"e","n","t","i","t","y">>, JStr(task.entityName)),
         Member(<<"e","n","t","i","t","y","K","e","y">>, JStr(task.entityKey)),
         Member(<<"f","i","e","l","d","s">>, JArr(JTexts(SortTexts(fields)))),
         Member(<<"f","i","e","l","d","C","o","u","n","t">>, JNum(Cardinality(fields))),
         Member(<<"s","a","m","p","l","e","C","o","u","n","t">>, JNum(task.sampleCount)),
         Member(<<"l","a","s","t","S","e","e","n">>, IsoString(task.now)),
         Member(<<"l","a","s","t","W","r","i","t","e","M","s">>, JNum(task.now))>>)

\* index?.entities when it is an array, else []
IndexItems(index) ==
  IF GetKey(index, <<"e","n","t","i","t","i","e","s">>).t = "array"
  THEN [i \in 1..Len(GetKey(index, <<"e","n","t","i","t","i","e","s">>).items) |-> GetKey(index, <<"e","n","t","i","t","i","e","s">>).items[i].s]
  ELSE <<>>

InSeq(x, items) == \E i \in 1..Len(items) : items[i] = x

\* maybeLearnFromOData from one await to the next: the task resumes with the
\* result of the KV operation it awaited and runs to its next await or end
learnResume(task, store) ==
  CASE task.pc = "getEntity" ->
         LET existing       == KvGet(store, <<"l","e","a","r","n",":","e","n","t","i","t","y",":">> \o task.entityKey)
             existingFields == ExistingFields(existing)
             hasNewFields   == ~(task.discovered \subseteq existingFields)
             shouldRefresh  == task.now - LastWriteOf(existing) > LEARN_REFRESH_INTERVAL
         IN  IF ~hasNewFields /\ ~shouldRefresh
             THEN [task |-> IdleTask, store |-> store]
             ELSE [task |-> [task EXCEPT !.pc = "putEntity",
                               !.pending = LearnedRecord(task, existingFields \cup task.discovered)],
                   store |-> store]
    [] task.pc = "putEntity" ->
         [task |-> [task EXCEPT !.pc = "getIndex", !.pending = JNull],
          store |-> KvPut(store, <<"l","e","a","r","n",":","e","n","t","i","t","y",":">> \o task.entityKey, task.pending)]
    [] task.pc = "getIndex" ->
         LET items == IndexItems(KvGet(store, LEARN_INDEX_KEY))
         IN  IF InSeq(task.entityKey, items)
             THEN [task |-> IdleTask, store |-> store]
             ELSE [task |-> [task EXCEPT !.pc = "putIndex",
                               !.pending = JObj(<<
                                  Member(<<"e","n","t","i","t","i","e","s">>, JArr(JTexts(sortItems(Append(items, task.entityKey))))),
                                  Member(<<"l","a","s","t","W","r","i","t","e","M","s">>, JNum(task.now))>>)],
                   store |-> store]
    [] task.pc = "putIndex" ->
         [task |-> IdleTask, store |-> KvPut(store, LEARN_INDEX_KEY, task.pending)]
    [] OTHER -> [task |-> task, store |-> store]

(***************************************************************************)
(* State.                                                                  *)
(*   now          the clock (seconds since the epoch)                      *)
(*   cachedToken, tokenExpiry   the module-level token cache               *)
(*   env          the bindings of the worker                               *)
(*   kv           the LEARNING_KV namespace                                *)
(*   pc, req, local, resp   per invocation: where fetch stands, its        *)
(*                request, its locals, the response it returned            *)
(*   sent         per invocation: the upstream requests it has issued      *)
(*   task         per invocation: the learner task handed to waitUntil     *)
(*   kvTwin, taskTwin   a second run of the learner, fed at every data     *)
(*                reply a body with the same keys as the first run's       *)
(*   aligned      whether both runs have so far redacted the same rows     *)
(*   probe        the input and result of one call of a pure function      *)
(***************************************************************************)
VARIABLES now, cachedToken, tokenExpiry, env, kv, pc, req, local, resp, sent,
          task, kvTwin, taskTwin, aligned, probe

vars == <<now, cachedToken, tokenExpiry, env, kv, pc, req, local, resp, sent,
          task, kvTwin, taskTwin, aligned, probe>>

\* the concurrent invocations of the worker
Slots == {"r1", "r2"}

\* 2026-01-10T16:00:00Z
T0 == DateUTC(2026, 0, 10, 16, 0, 0)

NoRequest == [method |-> "NONE", authorization |-> Null, pathname |-> <<>>, search |-> <<>>]

\* heard holds the upstream answers the invocation has received so far: the
\* response of getBloxsToken, then the response of fetch
\* trace holds, in the order they ran, the steps of the learner of the
\* invocation (the parse of the body, and each KV operation it issued, named
\* by the await it stands at) and the return of the response
NoLocal == [acquired |-> FALSE, now |-> 0, token |-> Null, entityName |-> Null, entities |-> <<>>,
            heard |-> <<>>, trace |-> <<>>]

NoProbe == [kind |-> "none", entityName |-> Null, search |-> <<>>, body |-> NoBody,
            pathname |-> <<>>, out |-> NoBody, done |-> FALSE, threw |-> FALSE,
            again |-> NoBody, twice |-> FALSE]

Environment(learning) ==
  [PROXY_API_KEY |-> <<"k","e","y">>, BLOXS_API_KEY |-> <<"b","l","o","x","s","-","i","d">>, BLOXS_API_SECRET |-> <<"b","l","o","x","s","-","s","e","c","r","e","t">>,
   ENABLE_LEARNING |-> learning, LEARNING_KV |-> TRUE]

\* the worker after its module is loaded, before the first request
Load(environment) ==
  /\ now = T0
  /\ cachedToken = Null
  /\ tokenExpiry = 0
  /\ env = environment
  /\ kv = {}
  /\ kvTwin = {}
  /\ pc = [r \in Slots |-> "idle"]
  /\ req = [r \in Slots |-> NoRequest]
  /\ local = [r \in Slots |-> NoLocal]
  /\ resp = [r \in Slots |-> NoResponse]
  /\ sent = [r \in Slots |-> <<>>]
  /\ task = [r \in Slots |-> IdleTask]
  /\ taskTwin = [r \in Slots |-> IdleTask]
  /\ aligned = TRUE

Boot(learning) == Load(Environment(learning))

(***************************************************************************)
(* The pure functions on their own: one call of the query sanitiser or of  *)
(* the response redactor on an input drawn from the sets below.            *)
(***************************************************************************)
\* the longest query string, in parameters
MaxParams == 2

\* the longest collection, in rows
MaxRows == 2

Param(name, value) == [name |-> name, value |-> value]

QueryParams ==
  { Param(<<"$","t","o","p">>, <<"1","0">>), Param(<<"$","t","o","p">>, <<"9","9","9","9">>), Param(<<"$","t","o","p">>, <<"0">>), Param(<<"$","t","o","p">>, <<"a","b","c">>),
    Param(<<"$","t","o","p">>, <<"1","5","0">>), Param(<<"$","t","o","p">>, <<"-","3">>), Param(<<"$","t","o","p">>, <<"1",".","5">>), Param(<<"$","t","o","p">>, <<"1","2","a","b","c">>),
    Param(<<"$","o","r","d","e","r","b","y">>, <<"U","n","i","t","I","d">>), Param(<<"$","o","r","d","e","r","b","y">>, <<"B","o","g","u","s"," ","a","s","c">>),
    Param(<<"$","o","r","d","e","r","b","y">>, <<"r","e","f","e","r","e","n","c","e"," ","D","E","S","C",","," ","F","o","o">>), Param(<<"$","o","r","d","e","r","b","y">>, <<>>),
    Param(<<"$","o","r","d","e","r","b","y">>, <<"F","o","o"," ","d","e","s","c",",","U","n","i","t","I","d"," ","a","s","c">>), Param(<<"$","o","r","d","e","r","b","y">>, <<"o","w","n","e","r","i","d"," "," ","D","e","s","c"," ",","," ","D","i","s","p","l","a","y","N","a","m","e"," ","u","p">>),
    Param(<<"$","o","r","d","e","r","b","y">>, <<"B","o","g","u","s"," ","D","E","S","C">>), Param(<<"$","o","r","d","e","r","b","y">>, <<"D","e","s","c","r","i","p","t","i","o","n">>), Param(<<"$","o","r","d","e","r","b","y">>, <<",">>),
    Param(<<"$","f","i","l","t","e","r">>, <<"I","d"," ","e","q"," ","1">>), Param(<<"$","s","e","l","e","c","t">>, <<"I","d",",","N","a","m","e">>) }

Queries == UNION { [1..n -> QueryParams] : n \in 0..MaxParams }

EntityNames == { <<"U","n","i","t","s">>, <<"f","i","n","a","n","c","i","a","l","m","u","t","a","t","i","o","n","s">>, <<"S","a","l","e","s","I","n","v","o","i","c","e","L","i","n","e","s">>, <<"F","o","o">>, <<"C","o","n","s","t","r","u","c","t","o","r">>, Null }

RowClean == JObj(<<Member(<<"I","d">>, JNum(1)), Member(<<"O","w","n","e","r","N","a","m","e">>, JStr(<<"A","l","i","c","e">>))>>)

RowNear == JObj(<<Member(<<"I","d">>, JNum(5)), Member(<<"O","w","n","e","r","N","a","m","e">>, JStr(<<"W","a","l","s"," ","H","u","r","e","n"," ","B","V">>))>>)

RowForbidden == JObj(<<Member(<<"I","d">>, JNum(2)), Member(<<"O","w","n","e","r","N","a","m","e">>, JStr(<<"W","a","l","s"," ","H","u","r","e","n">>))>>)

RowNested ==
  JObj(<<Member(<<"I","d">>, JNum(3)),
         Member(<<"O","w","n","e","r","s">>, JArr(<<JObj(<<Member(<<"N","a","m","e">>, JStr(<<" ","G","R","E","E","N","H","O","R","N"," ","P","r","o","p","e","r","t","i","e","s"," ","B","V"," ">>))>>)>>))>>)

RowMeta == JObj(<<Member(<<"@","o","d","a","t","a",".","e","t","a","g">>, JStr(<<"w","a","l","s"," ","h","u","r","e","n">>)), Member(<<"I","d">>, JNum(4))>>)

RowText == JStr(<<"w","a","l","s"," ","h","u","r","e","n">>)

Rows == { RowClean, RowNear, RowForbidden, RowNested, RowMeta, RowText, JNull }

Envelope(rows) ==
  JObj(<<Member(<<"@","o","d","a","t","a",".","c","o","n","t","e","x","t">>, JStr(<<"$","m","e","t","a","d","a","t","a","#","U","n","i","t","s">>)), Member(<<"v","a","l","u","e">>, JArr(rows))>>)

Collections == { Envelope(rows) : rows \in UNION { [1..n -> Rows] : n \in 0..MaxRows } }

\* a page of a counted collection
Paged(rows) ==
  JObj(<<Member(<<"@","o","d","a","t","a",".","c","o","n","t","e","x","t">>, JStr(<<"$","m","e","t","a","d","a","t","a","#","U","n","i","t","s">>)),
         Member(<<"@","o","d","a","t","a",".","c","o","u","n","t">>, JNum(Len(rows) + 40)),
         Member(<<"v","a","l","u","e">>, JArr(rows)),
         Member(<<"@","o","d","a","t","a",".","n","e","x","t","L","i","n","k">>, JStr(<<"U","n","i","t","s","?","$","s","k","i","p","=","2","0">>))>>)

Pages ==
  { Paged(<<RowNear, RowForbidden, RowClean>>), Paged(<<RowNested, RowForbidden>>),
    Paged(<<RowMeta, RowClean>>) }

Bodies ==
  { JsonBody(f, doc) : f \in {"pretty", "compact"}, doc \in Collections \cup Pages }
    \cup { TextBody(<<>>), TextBody(<<"B","a","d"," ","G","a","t","e","w","a","y">>),
           JsonBody("pretty", RowForbidden),
           JsonBody("compact", JArr(<<RowForbidden>>)),
           JsonBody("pretty", JObj(<<Member(<<"v","a","l","u","e">>, RowForbidden)>>)),
           JsonBody("compact", JNull) }

\* the tokens of the auth responses
Tokens ==
  { <<"b","a","r","e">>, <<"h",".","e","6","0","0",".","s">>, <<"h",".","e","0",".","s">>, <<"h",".","e","2","0","0","1",".","s">>, <<"h",".","n","o","e","x","p",".","s">>, <<"h",".","j","u","n","k",".","s">>, <<"e","6","0","0",".","s">>, Null }

\* the expiration strings of the auth responses, each with the reading its
\* writer meant: form is whether it is written A/B/YYYY[ H:M[:S]], and a, b,
\* year, hour, minute, second are its numbers
Expiration(text, a, b, year, hour, minute, second) ==
  [text |-> text, form |-> TRUE, a |-> a, b |-> b, year |-> year,
   hour |-> hour, minute |-> minute, second |-> second]

Malformed(text) ==
  [text |-> text, form |-> FALSE, a |-> 0, b |-> 0, year |-> 0, hour |-> 0, minute |-> 0, second |-> 0]

Expirations ==
  { Expiration(<<"1","0","/","0","1","/","2","0","2","6"," ","1","6",":","4","2",":","2","6">>, 10, 1, 2026, 16, 42, 26),
    Expiration(<<"0","1","/","1","0","/","2","0","2","6">>, 1, 10, 2026, 0, 0, 0),
    Expiration(<<"1","3","/","0","1","/","2","0","2","6"," ","0","8",":","0","5">>, 13, 1, 2026, 8, 5, 0),
    Expiration(<<"0","1","/","1","3","/","2","0","2","6"," ","0","8",":","0","5">>, 1, 13, 2026, 8, 5, 0),
    Expiration(<<" ","1","/","2","/","2","0","2","6"," "," "," ","9",":","0","5",":","0","7"," ">>, 1, 2, 2026, 9, 5, 7),
    Expiration(<<"2","9","/","0","2","/","2","0","2","4">>, 29, 2, 2024, 0, 0, 0),
    Expiration(<<"2","9","/","0","2","/","2","0","2","6">>, 29, 2, 2026, 0, 0, 0),
    Expiration(<<"3","1","/","0","2","/","2","0","2","6">>, 31, 2, 2026, 0, 0, 0),
    Expiration(<<"3","0","/","0","2","/","2","0","2","6">>, 30, 2, 2026, 0, 0, 0),
    Expiration(<<"0","4","/","3","1","/","2","0","2","6"," ","1","2",":","0","0">>, 4, 31, 2026, 12, 0, 0),
    Expiration(<<"0","0","/","0","0","/","2","0","2","6">>, 0, 0, 2026, 0, 0, 0),
    Expiration(<<"3","2","/","1","3","/","2","0","2","6">>, 32, 13, 2026, 0, 0, 0),
    Malformed(<<"s","o","o","n">>),
    Malformed(<<"2","0","2","6","-","0","1","-","1","0","T","1","6",":","4","2",":","2","6","Z">>),
    Malformed(<<"1","0","/","0","1","/","2","6">>),
    Malformed(<<"1","0","/","0","1","/","2","0","2","6"," ","1","6",":","4">>) }

AuthData(token, expiration) == [token |-> token, expiration |-> expiration]

\* request paths: the four spellings of the alias map, other spellings of the
\* same names, paths with a rest, special endpoints and other entities
Paths ==
  { <<"/","o","d","a","t","a","f","e","e","d","/","O","w","n","e","r","s">>, <<"/","o","d","a","t","a","f","e","e","d","/","O","W","N","E","R","S">>, <<"/","o","d","a","t","a","f","e","e","d","/","o","w","n","e","r","s">>, <<"/","o","d","a","t","a","f","e","e","d","/","o","W","n","E","r","s">>,
    <<"/","o","d","a","t","a","f","e","e","d","/","O","w","n","e","r","s","/","$","c","o","u","n","t">>, <<"/","o","d","a","t","a","f","e","e","d","/","O","W","N","E","R","S","/","1","2","/","U","n","i","t","s">>, <<"/","o","d","a","t","a","f","e","e","d","/","O","w","n","e","r","S","/","$","c","o","u","n","t">>,
    <<"/","o","d","a","t","a","f","e","e","d","/","C","o","m","m","e","r","c","i","a","l","O","v","e","r","v","i","e","w">>, <<"/","o","d","a","t","a","f","e","e","d","/","c","o","m","m","e","r","c","i","a","l","o","v","e","r","v","i","e","w">>,
    <<"/","o","d","a","t","a","f","e","e","d","/","C","O","M","M","E","R","C","I","A","L","O","V","E","R","V","I","E","W">>, <<"/","o","d","a","t","a","f","e","e","d","/","C","o","m","m","e","r","c","i","a","l","o","v","e","r","v","i","e","w","/","$","c","o","u","n","t">>,
    <<"/","o","d","a","t","a","f","e","e","d","/","c","o","m","m","e","r","c","i","a","l","o","v","e","r","v","i","e","w","/","$","c","o","u","n","t">>,
    <<"/","o","d","a","t","a","f","e","e","d","/","U","n","i","t","s">>, <<"/","o","d","a","t","a","f","e","e","d","/","u","n","i","t","s","/","O","w","n","e","r","s">>, <<"/","o","d","a","t","a","f","e","e","d","/","$","m","e","t","a","d","a","t","a">>,
    <<"/","o","d","a","t","a","f","e","e","d","/","$","O","w","n","e","r","s">>, <<"/","o","d","a","t","a","f","e","e","d","/","c","o","n","s","t","r","u","c","t","o","r">>, <<"/","o","d","a","t","a","f","e","e","d","/">>, <<"/","o","d","a","t","a","f","e","e","d">>,
    <<"/","O","w","n","e","r","s">>, <<"/","v","2","/","o","d","a","t","a","f","e","e","d","/","O","w","n","e","r","s">> }

ProbeInputs ==
  { [NoProbe EXCEPT !.kind = "query", !.entityName = e, !.search = s] :
      e \in EntityNames, s \in Queries }
    \cup { [NoProbe EXCEPT !.kind = "body", !.body = b] : b \in Bodies }
    \cup { [NoProbe EXCEPT !.kind = "expiry", !.body = AuthData(k, e)] :
             k \in Tokens, e \in {x.text : x \in Expirations} \cup {Null} }
    \cup { [NoProbe EXCEPT !.kind = "path", !.pathname = p] : p \in Paths }

InitFn == Boot(<<>>) /\ probe \in ProbeInputs

Others == <<now, cachedToken, tokenExpiry, env, kv, pc, req, local, resp, sent,
            task, kvTwin, taskTwin, aligned>>

\* the probe after validateAndFixQuery returned out and was called with it again
SanitisedProbe(p, out) ==
  IF validateAndFixQueryThrows(out, p.entityName)
  THEN [p EXCEPT !.out = out, !.done = TRUE, !.threw = TRUE, !.twice = TRUE]
  ELSE [p EXCEPT !.out = out, !.done = TRUE, !.twice = TRUE,
                 !.again = validateAndFixQuery(out, p.entityName)]

ApplySanitise ==
  /\ probe.kind = "query" /\ ~probe.done
  /\ probe' = IF validateAndFixQueryThrows(probe.search, probe.entityName)
               THEN [probe EXCEPT !.threw = TRUE, !.done = TRUE]
               ELSE SanitisedProbe(probe, validateAndFixQuery(probe.search, probe.entityName))
  /\ UNCHANGED Others

ApplyRedact ==
  /\ probe.kind = "body" /\ ~probe.done
  /\ probe' = [probe EXCEPT !.out = redactForbiddenOwnersFromODataJson(probe.body),
                            !.done = TRUE]
  /\ UNCHANGED Others

\* getBloxsToken from the body of the auth response to the expiry it stores
ApplyExpiry ==
  /\ probe.kind = "expiry" /\ ~probe.done
  /\ probe' = [probe EXCEPT !.out = ExpiryOf(probe.body, now), !.done = TRUE]
  /\ UNCHANGED Others

\* fetch from the alias rewrite to the entity name it validates for
ApplyPath ==
  /\ probe.kind = "path" /\ ~probe.done
  /\ probe' = [probe EXCEPT
                 !.out = [pathname |-> normalizeODataPathname(probe.pathname),
                          entityName |-> EntityOf(normalizeODataPathname(probe.pathname))],
                 !.done = TRUE]
  /\ UNCHANGED Others

NextFn == ApplySanitise \/ ApplyRedact \/ ApplyExpiry \/ ApplyPath

SpecFn == InitFn /\ [][NextFn]_vars

(***************************************************************************)
(* Properties of the query sanitiser.                                      *)
(***************************************************************************)
TopCapFor(entityName) ==
  CASE toLowerCase(entityName) \in {<<"f","i","n","a","n","c","i","a","l","m","u","t","a","t","i","o","n","s">>, <<"j","o","u","r","n","a","l","p","o","s","t","t","r","a","n","s","a","c","t","i","o","n","s">>} -> 100
    [] toLowerCase(entityName) \in {<<"s","a","l","e","s","i","n","v","o","i","c","e","l","i","n","e","s">>, <<"p","u","r","c","h","a","s","e","i","n","v","o","i","c","e","l","i","n","e","s">>} -> 200
    [] OTHER -> 500

IsCappedTop(value, entityName) ==
  /\ ~parseInt(value).nan
  /\ parseInt(value).n > 0
  /\ parseInt(value).n <= TopCapFor(entityName)

Sanitised == probe.kind = "query" /\ probe.done /\ ~probe.threw /\ probe.entityName # Null

\* C3 (cap enforcement): in the rewritten query string of any entity, every
\* $top parameter, a repeated one included, is an integer > 0 and <= the cap
\* of the entity.
CapEnforcement ==
  Sanitised =>
    \A i \in 1..Len(probe.out) :
      probe.out[i].name = <<"$","t","o","p">> => IsCappedTop(probe.out[i].value, probe.entityName)

\* a segment "field" or "field desc" whose field the catalog of the entity has
IsSafeSegment(segment, entityName) ==
  LET tokens == splitWhiteSpace(trim(segment))
      fields == getKnownSortableFields(entityName)
  IN  /\ Len(tokens) \in {1, 2}
      /\ \E i \in 1..Len(fields) : toLowerCase(fields[i]) = toLowerCase(tokens[1])
      /\ Len(tokens) = 2 => tokens[2] = <<"d","e","s","c">>

\* a segment that is empty once trimmed is no segment
IsSafeOrderBy(value, entityName) ==
  \A i \in 1..Len(split(value, ",")) :
    trim(split(value, ",")[i]) # <<>> => IsSafeSegment(split(value, ",")[i], entityName)

\* C4 (orderby safety): in the rewritten query string of any entity, every
\* $orderby parameter, a repeated one included, is made of segments whose
\* field is in the catalog of the entity and whose direction is absent or desc.
OrderBySafety ==
  Sanitised =>
    \A i \in 1..Len(probe.out) :
      probe.out[i].name = <<"$","o","r","d","e","r","b","y">> => IsSafeOrderBy(probe.out[i].value, probe.entityName)

(***************************************************************************)
(* Properties of the response redactor.                                    *)
(***************************************************************************)
\* the strings of a document at any depth, not entering the value of a key
\* that begins with @odata.
RECURSIVE VisibleStrings(_)
VisibleStrings(doc) ==
  CASE doc.t = "string" -> {doc.s}
    [] doc.t = "array" -> UNION { VisibleStrings(doc.items[i]) : i \in 1..Len(doc.items) }
    [] doc.t = "object" ->
         UNION { VisibleStrings(doc.members[i].val) :
                   i \in {j \in 1..Len(doc.members) : ~startsWith(doc.members[j].key, <<"@","o","d","a","t","a",".">>)} }
    [] OTHER -> {}

NamesForbidden(doc) ==
  \E s \in VisibleStrings(doc) : toLowerCase(trim(s)) \in FORBIDDEN_OWNER_NAMES

IsCollection(body) ==
  /\ body.format \in {"pretty", "compact"}
  /\ body.doc.t = "object"
  /\ \E i \in 1..Len(body.doc.members) :
       body.doc.members[i].key = <<"v","a","l","u","e">> /\ body.doc.members[i].val.t = "array"

RowsOf(body) ==
  body.doc.members[CHOOSE i \in 1..Len(body.doc.members) :
                     body.doc.members[i].key = <<"v","a","l","u","e">>].val.items

Redacted == probe.kind = "body" /\ probe.done

\* C5 (redaction soundness): after redaction of a body that is a JSON object
\* with an array-valued value, no row of value holds, at any depth outside
\* @odata. keys, a string that is a forbidden owner name once trimmed and
\* lowercased.
RedactionSoundness ==
  Redacted /\ IsCollection(probe.body) =>
    /\ IsCollection(probe.out)
    /\ \A i \in 1..Len(RowsOf(probe.out)) : ~NamesForbidden(RowsOf(probe.out)[i])

\* a collection with a forbidden row and a harmless one has been redacted and
\* the harmless row is still there
RedactionSoundnessWitness ==
  /\ Redacted /\ IsCollection(probe.body)
  /\ \E i \in 1..Len(RowsOf(probe.body)) : NamesForbidden(RowsOf(probe.body)[i])
  /\ \E i \in 1..Len(RowsOf(probe.body)) : RowsOf(probe.body)[i] = RowNested
  /\ RowsOf(probe.out) = <<RowClean>>

\* C7 (redaction stability): when no row of the upstream body matches the
\* forbidden set, and when the body is not JSON or has no array-valued value,
\* the body handed back is the upstream body byte for byte.
RedactionStability ==
  Redacted /\ (IsCollection(probe.body) =>
                 \A i \in 1..Len(RowsOf(probe.body)) : ~NamesForbidden(RowsOf(probe.body)[i]))
    => probe.out = probe.body

\* a pretty-printed collection whose rows are all harmless came back unchanged
RedactionStabilityWitness ==
  /\ Redacted /\ IsCollection(probe.body) /\ probe.body.format = "pretty"
  /\ Len(RowsOf(probe.body)) = 2
  /\ \E i \in 1..2 : RowsOf(probe.body)[i] = RowMeta
  /\ probe.out = probe.body

(***************************************************************************)
(* The worker.  An invocation runs fetch from one await to the next; the   *)
(* two awaits of an upstream call (the response, then its body) resume as  *)
(* one step, since nothing is read or written between them.                *)
(***************************************************************************)
Outcome(pcv, response, requests, locals) ==
  [pc |-> pcv, resp |-> response, sent |-> requests, local |-> locals]

Carry(locals, token, entityName) == [locals EXCEPT !.token = token, !.entityName = entityName]

AfterForward(step, token, locals, requests) ==
  IF step.kind = "throw"
  THEN Outcome("threw", NoResponse, requests, Carry(locals, token, step.entityName))
  ELSE IF step.kind = "respond"
  THEN Outcome("done", step.response, requests, Carry(locals, token, step.entityName))
  ELSE Outcome("data", NoResponse, Append(requests, step.upstream),
               Carry(locals, token, step.entityName))

\* fetch from the entity extraction on, holding a token
AfterToken(request, token, locals, requests) ==
  AfterForward(Forward(request, token), token, locals, requests)

\* handleLearnSummary to its first await
LearnSummaryStart(request, environment) ==
  IF ~isLearningEnabled(environment)
  THEN Outcome("done",
         jsonError(<<"L","e","a","r","n","i","n","g"," ","i","s"," ","d","i","s","a","b","l","e","d","."," ","S","e","t"," ","E","N","A","B","L","E","_","L","E","A","R","N","I","N","G","=","t","r","u","e"," ","a","n","d"," ","b","i","n","d"," ","L","E","A","R","N","I","N","G","_","K","V"," ","t","o"," ","e","n","a","b","l","e",".">>, 400),
         <<>>, NoLocal)
  ELSE IF ~environment.LEARNING_KV
  THEN Outcome("done",
         jsonError(<<"L","e","a","r","n","i","n","g"," ","K","V"," ","i","s"," ","n","o","t"," ","c","o","n","f","i","g","u","r","e","d","."," ","B","i","n","d"," ","a"," ","K","V"," ","n","a","m","e","s","p","a","c","e"," ","t","o"," ","L","E","A","R","N","I","N","G","_","K","V",".">>, 400),
         <<>>, NoLocal)
  ELSE LET entity == ParamsGet(request.search, <<"e","n","t","i","t","y">>)
       IN  IF entity # Null /\ entity # <<>>
           THEN Outcome("summaryRecord", NoResponse, <<>>, [NoLocal EXCEPT !.entityName = entity])
           ELSE Outcome("summaryIndex", NoResponse, <<>>, NoLocal)

\* fetch from the special endpoints to its first await or to its response
Route(request, environment, token, expiry, t) ==
  IF request.pathname = <<"/","o","d","a","t","a","f","e","e","d","/","$","m","e","t","a","d","a","t","a","-","s","u","m","m","a","r","y">>
  THEN Outcome("done", handleMetadataSummary, <<>>, NoLocal)
  ELSE IF request.pathname = <<"/","o","d","a","t","a","f","e","e","d","/","$","l","e","a","r","n","-","s","u","m","m","a","r","y">>
  THEN LearnSummaryStart(request, environment)
  ELSE IF TokenIsFresh(token, expiry, t)
  THEN AfterToken(request, token, [NoLocal EXCEPT !.acquired = TRUE, !.now = t], <<>>)
  ELSE Outcome("auth", NoResponse, <<AuthRequest(environment)>>,
               [NoLocal EXCEPT !.acquired = TRUE, !.now = t])

Gate(refusal, request, environment, token, expiry, t) ==
  IF refusal # NoResponse THEN Outcome("done", refusal, <<>>, NoLocal)
  ELSE Route(request, environment, token, expiry, t)

\* fetch with the credential check ahead of the method gate
EnterMethodGateLast(request, environment, token, expiry, t) ==
  IF request.method = "OPTIONS" THEN Outcome("done", handleCORS, <<>>, NoLocal)
  ELSE IF CheckCredentials(request.authorization, environment.PROXY_API_KEY) # NoResponse
  THEN Outcome("done", CheckCredentials(request.authorization, environment.PROXY_API_KEY),
               <<>>, NoLocal)
  ELSE IF request.method \notin ALLOWED_METHODS
  THEN Outcome("done", methodNotAllowed, <<>>, NoLocal)
  ELSE Route(request, environment, token, expiry, t)

\* fetch with the credential check ahead of the preflight
EnterPreflightLast(request, environment, token, expiry, t) ==
  IF CheckCredentials(request.authorization, environment.PROXY_API_KEY) # NoResponse
  THEN Outcome("done", CheckCredentials(request.authorization, environment.PROXY_API_KEY),
               <<>>, NoLocal)
  ELSE IF request.method = "OPTIONS" THEN Outcome("done", handleCORS, <<>>, NoLocal)
  ELSE IF request.method \notin ALLOWED_METHODS
  THEN Outcome("done", methodNotAllowed, <<>>, NoLocal)
  ELSE Route(request, environment, token, expiry, t)

\* fetch with the metadata summary served ahead of the credential check
EnterSummaryFirst(request, environment, token, expiry, t) ==
  IF request.method = "OPTIONS" THEN Outcome("done", handleCORS, <<>>, NoLocal)
  ELSE IF request.method \notin ALLOWED_METHODS
  THEN Outcome("done", methodNotAllowed, <<>>, NoLocal)
  ELSE IF request.pathname = <<"/","o","d","a","t","a","f","e","e","d","/","$","m","e","t","a","d","a","t","a","-","s","u","m","m","a","r","y">>
  THEN Outcome("done", handleMetadataSummary, <<>>, NoLocal)
  ELSE Gate(CheckCredentials(request.authorization, environment.PROXY_API_KEY),
            request, environment, token, expiry, t)

\* fetch from its entry to its first await or to its response
Enter(request, environment, token, expiry, t) ==
  IF request.method = "OPTIONS" THEN Outcome("done", handleCORS, <<>>, NoLocal)
  ELSE IF request.method \notin ALLOWED_METHODS
  THEN Outcome("done", methodNotAllowed, <<>>, NoLocal)
  ELSE Gate(CheckCredentials(request.authorization, environment.PROXY_API_KEY),
            request, environment, token, expiry, t)

Settle(r, outcome) ==
  /\ pc' = [pc EXCEPT ![r] = outcome.pc]
  /\ resp' = [resp EXCEPT ![r] = outcome.resp]
  /\ sent' = [sent EXCEPT ![r] = outcome.sent]
  /\ local' = [local EXCEPT ![r] = outcome.local]

\* a request arrives at a free invocation
Request(r, q) ==
  /\ pc[r] = "idle"
  /\ req' = [req EXCEPT ![r] = q]
  /\ Settle(r, Enter(q, env, cachedToken, tokenExpiry, now))
  /\ UNCHANGED <<now, cachedToken, tokenExpiry, env, kv, task, kvTwin, taskTwin, aligned, probe>>

Hearing(locals, answer) == [locals EXCEPT !.heard = Append(@, answer)]

\* a getBloxsToken that takes whatever body a 2xx carries
AuthFailureByStatus(a) ==
  IF a.kind = "throw" THEN a.message
  ELSE IF a.status \notin 200..299 THEN <<"B","l","o","x","s"," ","a","u","t","h"," ","f","a","i","l","e","d",":"," ">> \o String(a.status)
  ELSE Null

\* why getBloxsToken rejects on an answer of the auth endpoint, Null when it
\* does not: the call failed, the status is not 2xx, or response.json() found
\* no JSON in the body
AuthFailure(a) ==
  IF a.kind = "throw" THEN a.message
  ELSE IF a.status \notin 200..299 THEN <<"B","l","o","x","s"," ","a","u","t","h"," ","f","a","i","l","e","d",":"," ">> \o String(a.status)
  ELSE IF ~a.json THEN <<"U","n","e","x","p","e","c","t","e","d"," ","t","o","k","e","n"," ","<"," ","i","n"," ","J","S","O","N"," ","a","t"," ","p","o","s","i","t","i","o","n"," ","0">>
  ELSE Null

\* a failure message that names the credentials of the failed attempt
TokenFailureNamingKey(message, requests, locals) ==
  Outcome("done",
          jsonError(<<"F","a","i","l","e","d"," ","t","o"," ","g","e","t"," ","B","l","o","x","s"," ","t","o","k","e","n",":"," ">> \o message \o <<" ","f","o","r"," ">>
                      \o requests[Len(requests)].body[1], 500),
          requests, locals)

TokenFailure(message, requests, locals) ==
  Outcome("done", jsonError(<<"F","a","i","l","e","d"," ","t","o"," ","g","e","t"," ","B","l","o","x","s"," ","t","o","k","e","n",":"," ">> \o message, 500), requests, locals)

\* a refresh that does not shorten the life of an entry still in force
AuthSettleKeepingExpiry(r, a, failure, locals) ==
  IF failure # Null
  THEN /\ Settle(r, TokenFailure(failure, sent[r], locals))
       /\ UNCHANGED <<cachedToken, tokenExpiry>>
  ELSE /\ cachedToken' = a.token
       /\ tokenExpiry' = IF tokenExpiry > ExpiryOf(a, locals.now) THEN tokenExpiry
                         ELSE ExpiryOf(a, locals.now)
       /\ Settle(r, AfterToken(req[r], a.token, locals, sent[r]))

\* a getBloxsToken that drops the cached entry when a refresh fails
AuthSettleForgetting(r, a, failure, locals) ==
  IF failure # Null
  THEN /\ Settle(r, TokenFailure(failure, sent[r], locals))
       /\ cachedToken' = Null
       /\ tokenExpiry' = 0
  ELSE /\ cachedToken' = a.token
       /\ tokenExpiry' = ExpiryOf(a, locals.now)
       /\ Settle(r, AfterToken(req[r], a.token, locals, sent[r]))

AuthSettle(r, a, failure, locals) ==
  IF failure # Null
  THEN /\ Settle(r, TokenFailure(failure, sent[r], locals))
       /\ UNCHANGED <<cachedToken, tokenExpiry>>
  ELSE /\ cachedToken' = a.token
       /\ tokenExpiry' = ExpiryOf(a, locals.now)
       /\ Settle(r, AfterToken(req[r], a.token, locals, sent[r]))

\* getBloxsToken resumes with the answer of the auth endpoint
AuthReply(r, a) ==
  /\ pc[r] = "auth"
  /\ AuthSettle(r, a, AuthFailure(a), Hearing(local[r], a))
  /\ UNCHANGED <<now, env, kv, req, task, kvTwin, taskTwin, aligned, probe>>

\* which rows of a body name a forbidden owner
ForbiddenRows(body) ==
  IF IsJson(body) /\ HasValueArray(body.doc)
  THEN {i \in 1..Len(ValueRows(body.doc)) : objectContainsForbiddenOwnerName(ValueRows(body.doc)[i])}
  ELSE {}

\* fetch from the redaction to its response
\* a fetch that awaits the learner's first KV read before it returns
RedactAwaitingLearner(r, status, redactedBody, twinBody, locals) ==
  /\ task' = [task EXCEPT ![r] = learnResume(learnStart(locals.entityName, redactedBody, env, now), kv).task]
  /\ taskTwin' = [taskTwin EXCEPT ![r] = learnResume(learnStart(locals.entityName, twinBody, env, now), kvTwin).task]
  /\ Settle(r, Outcome("done", DataResponse(status, redactedBody), sent[r],
              [locals EXCEPT !.trace =
                 learnIssued(learnBegun(learnParses(locals.entityName, env),
                                        learnStart(locals.entityName, redactedBody, env, now)),
                             task'[r]) \o <<"return">>]))

\* a fetch that lets the exception of the learner's JSON.parse reach its catch
RedactLearnerThrows(r, status, redactedBody, twinBody, locals) ==
  /\ task' = [task EXCEPT ![r] = learnStart(locals.entityName, redactedBody, env, now)]
  /\ taskTwin' = [taskTwin EXCEPT ![r] = learnStart(locals.entityName, twinBody, env, now)]
  /\ Settle(r, Outcome("done",
              IF learnParses(locals.entityName, env) /\ ~IsJson(redactedBody)
              THEN jsonError(<<"F","a","i","l","e","d"," ","t","o"," ","f","e","t","c","h"," ","f","r","o","m"," ","B","l","o","x","s",":"," ","U","n","e","x","p","e","c","t","e","d"," ","t","o","k","e","n"," ","O"," ","i","n"," ","J","S","O","N"," ","a","t"," ","p","o","s","i","t","i","o","n"," ","0">>, 502)
              ELSE DataResponse(status, redactedBody),
              sent[r],
              [locals EXCEPT !.trace = learnBegun(learnParses(locals.entityName, env), task'[r])
                                        \o <<"return">>]))

Redact(r, status, redactedBody, twinBody, locals) ==
  /\ task' = [task EXCEPT ![r] = learnStart(locals.entityName, redactedBody, env, now)]
  /\ taskTwin' = [taskTwin EXCEPT ![r] = learnStart(locals.entityName, twinBody, env, now)]
  /\ \E response \in Constructed(status, redactedBody) :
       Settle(r, Outcome("done", response, sent[r],
                         [locals EXCEPT !.trace = learnBegun(learnParses(locals.entityName, env), task'[r])
                                                   \o <<"return">>]))

\* a catch that passes the reason on as it is
UnredactedBareReason(d, entityName) ==
  IF d.kind = "throw" THEN jsonError(d.message, 502)
  ELSE handleODataError(d.status, d.body, entityName)

\* what fetch returns without redaction: the 502 of a failed call, or the
\* error envelope of a non-2xx answer
Unredacted(d, entityName) ==
  IF d.kind = "throw" THEN jsonError(<<"F","a","i","l","e","d"," ","t","o"," ","f","e","t","c","h"," ","f","r","o","m"," ","B","l","o","x","s",":"," ">> \o d.message, 502)
  ELSE handleODataError(d.status, d.body, entityName)

DataSettle(r, d, twin, locals) ==
  IF d.kind = "throw" \/ d.status \notin 200..299
  THEN /\ Settle(r, Outcome("done", Unredacted(d, locals.entityName), sent[r], locals))
       /\ UNCHANGED <<task, taskTwin, aligned>>
  ELSE /\ Redact(r, d.status, redactForbiddenOwnersFromODataJson(d.body),
                 redactForbiddenOwnersFromODataJson(twin), locals)
       /\ aligned' = (aligned /\ ForbiddenRows(d.body) = ForbiddenRows(twin))

\* fetch resumes with the answer of the OData service; twin is the body the
\* second run of the learner is fed
DataReply(r, d, twin) ==
  /\ pc[r] = "data"
  /\ DataSettle(r, d, twin, Hearing(local[r], d))
  /\ UNCHANGED <<now, cachedToken, tokenExpiry, env, kv, req, kvTwin, probe>>

Resume(r, mine, twin) ==
  /\ task' = [task EXCEPT ![r] = mine.task]
  /\ kv' = mine.store
  /\ taskTwin' = [taskTwin EXCEPT ![r] = twin.task]
  /\ kvTwin' = twin.store

\* a learner task resumes with the result of the KV operation it awaited; the
\* task of the second run takes the same step on its own store
LearnStep(r) ==
  /\ task[r].pc # "idle" \/ taskTwin[r].pc # "idle"
  /\ Resume(r, learnResume(task[r], kv), learnResume(taskTwin[r], kvTwin))
  /\ local' = [local EXCEPT ![r].trace = learnIssued(@, task'[r])]
  /\ UNCHANGED <<now, cachedToken, tokenExpiry, env, pc, req, resp, sent, aligned, probe>>

\* the KV operation a learner task awaits fails: the catch of
\* maybeLearnFromOData ends the task
LearnFail(r) ==
  /\ task[r].pc # "idle" \/ taskTwin[r].pc # "idle"
  /\ task' = [task EXCEPT ![r] = IdleTask]
  /\ taskTwin' = [taskTwin EXCEPT ![r] = IdleTask]
  /\ UNCHANGED <<now, cachedToken, tokenExpiry, env, kv, pc, req, local, resp, sent,
                 kvTwin, aligned, probe>>

SummaryResponse(doc) ==
  [status |-> 200, body |-> JsonBody("pretty", doc), headers |-> {ContentTypeJson, AllowOrigin}]

\* a handleLearnSummary that reads the key of the entity as it was spelt
SummaryRecordAsSpelt(r) ==
  /\ pc[r] = "summaryRecord"
  /\ LET record == KvGet(kv, <<"l","e","a","r","n",":","e","n","t","i","t","y",":">> \o local[r].entityName)
     IN  Settle(r, Outcome("done",
           SummaryResponse(JObj(<<Member(<<"r","e","c","o","r","d">>, IF Truthy(record) THEN record ELSE JNull)>>)),
           sent[r], local[r]))
  /\ UNCHANGED <<now, cachedToken, tokenExpiry, env, kv, req, task, kvTwin, taskTwin, aligned, probe>>

\* handleLearnSummary resumes with the record of the entity it was asked for
SummaryRecord(r) ==
  /\ pc[r] = "summaryRecord"
  /\ LET record == KvGet(kv, <<"l","e","a","r","n",":","e","n","t","i","t","y",":">> \o toLowerCase(local[r].entityName))
     IN  Settle(r, Outcome("done",
           SummaryResponse(JObj(<<Member(<<"r","e","c","o","r","d">>, IF Truthy(record) THEN record ELSE JNull)>>)),
           sent[r], local[r]))
  /\ UNCHANGED <<now, cachedToken, tokenExpiry, env, kv, req, task, kvTwin, taskTwin, aligned, probe>>

\* handleLearnSummary resumes with the index and asks for every record of it
SummaryIndex(r) ==
  /\ pc[r] = "summaryIndex"
  /\ Settle(r, Outcome("summaryRecords", NoResponse, sent[r],
                       [local[r] EXCEPT !.entities = IndexItems(KvGet(kv, LEARN_INDEX_KEY))]))
  /\ UNCHANGED <<now, cachedToken, tokenExpiry, env, kv, req, task, kvTwin, taskTwin, aligned, probe>>

RECURSIVE TruthyOnly(_)
TruthyOnly(docs) ==
  IF docs = <<>> THEN <<>>
  ELSE IF Truthy(Head(docs)) THEN <<Head(docs)>> \o TruthyOnly(Tail(docs))
  ELSE TruthyOnly(Tail(docs))

\* handleLearnSummary resumes with the records (Promise.all settles once all
\* reads have)
SummaryRecords(r) ==
  /\ pc[r] = "summaryRecords"
  /\ LET entities == local[r].entities
         records  == [i \in 1..Len(entities) |-> KvGet(kv, <<"l","e","a","r","n",":","e","n","t","i","t","y",":">> \o entities[i])]
     IN  Settle(r, Outcome("done",
           SummaryResponse(JObj(<<Member(<<"l","e","a","r","n","i","n","g","E","n","a","b","l","e","d">>, JBool(TRUE)),
                                  Member(<<"e","n","t","i","t","y","C","o","u","n","t">>, JNum(Len(entities))),
                                  Member(<<"e","n","t","i","t","i","e","s">>, JArr(JTexts(entities))),
                                  Member(<<"r","e","c","o","r","d","s">>, JArr(TruthyOnly(records)))>>)),
           sent[r], local[r]))
  /\ UNCHANGED <<now, cachedToken, tokenExpiry, env, kv, req, task, kvTwin, taskTwin, aligned, probe>>

\* the KV read handleLearnSummary awaits fails: nothing catches it in
\* handleLearnSummary or in fetch, and the promise of fetch rejects
SummaryFail(r) ==
  /\ pc[r] \in {"summaryRecord", "summaryIndex", "summaryRecords"}
  /\ Settle(r, Outcome("threw", NoResponse, sent[r], local[r]))
  /\ UNCHANGED <<now, cachedToken, tokenExpiry, env, kv, req, task, kvTwin, taskTwin, aligned, probe>>

\* the invocation ends: its response has gone out, or its promise has
\* rejected, and its waitUntil task is over
Retire(r) ==
  /\ pc[r] \in {"done", "threw"} /\ task[r].pc = "idle" /\ taskTwin[r].pc = "idle"
  /\ pc' = [pc EXCEPT ![r] = "idle"]
  /\ req' = [req EXCEPT ![r] = NoRequest]
  /\ resp' = [resp EXCEPT ![r] = NoResponse]
  /\ sent' = [sent EXCEPT ![r] = <<>>]
  /\ local' = [local EXCEPT ![r] = NoLocal]
  /\ UNCHANGED <<now, cachedToken, tokenExpiry, env, kv, task, kvTwin, taskTwin, aligned, probe>>

\* time passes
Tick(t) ==
  /\ t > now
  /\ now' = t
  /\ UNCHANGED <<cachedToken, tokenExpiry, env, kv, pc, req, local, resp, sent, task,
                 kvTwin, taskTwin, aligned, probe>>

(***************************************************************************)
(* The clients and the upstream of the main specification: learning is off.*)
(***************************************************************************)
Get(authorization, pathname, search) ==
  [method |-> "GET", authorization |-> authorization, pathname |-> pathname, search |-> search]

Requests ==
  { Get(<<"B","e","a","r","e","r"," ","k","e","y">>, <<"/","o","d","a","t","a","f","e","e","d","/","U","n","i","t","s">>, <<>>),
    Get(<<"B","e","a","r","e","r"," ","k","e","y">>, <<"/","o","d","a","t","a","f","e","e","d","/","F","i","n","a","n","c","i","a","l","M","u","t","a","t","i","o","n","s">>, <<Param(<<"$","t","o","p">>, <<"1","0">>)>>),
    Get(<<"B","e","a","r","e","r"," ","k","e","y">>, <<"/","o","d","a","t","a","f","e","e","d","/","j","o","u","r","n","a","l","p","o","s","t","t","r","a","n","s","a","c","t","i","o","n","s">>,
        <<Param(<<"$","f","i","l","t","e","r">>, <<"F","i","n","a","n","c","i","a","l","Y","e","a","r"," ","e","q"," ","2","0","2","5">>), Param(<<"$","t","o","p">>, <<"9","9","9","9">>)>>),
    Get(Null, <<"/","o","d","a","t","a","f","e","e","d","/","$","m","e","t","a","d","a","t","a","-","s","u","m","m","a","r","y">>, <<>>),
    Get(<<"B","e","a","r","e","r"," ","n","o","p","e">>, <<"/","o","d","a","t","a","f","e","e","d","/","F","i","n","a","n","c","i","a","l","M","u","t","a","t","i","o","n","s">>, <<Param(<<"$","t","o","p">>, <<"1","0">>)>>),
    Get(<<"B","a","s","i","c"," ","k","e","y">>, <<"/","o","d","a","t","a","f","e","e","d","/","U","n","i","t","s">>, <<>>),
    Get(<<"B","e","a","r","e","r"," ","k","e","y">>, <<"/","o","d","a","t","a","f","e","e","d","/","$","m","e","t","a","d","a","t","a","-","s","u","m","m","a","r","y">>, <<>>),
    Get(<<"B","e","a","r","e","r"," ","k","e","y">>, <<"/","o","d","a","t","a","f","e","e","d","/","$","l","e","a","r","n","-","s","u","m","m","a","r","y">>, <<>>),
    [Get(Null, <<"/","o","d","a","t","a","f","e","e","d","/","U","n","i","t","s">>, <<>>) EXCEPT !.method = "OPTIONS"],
    [Get(<<"B","e","a","r","e","r"," ","k","e","y">>, <<"/","o","d","a","t","a","f","e","e","d","/","$","m","e","t","a","d","a","t","a","-","s","u","m","m","a","r","y">>, <<>>) EXCEPT !.method = "OPTIONS"],
    [Get(<<"B","e","a","r","e","r"," ","k","e","y">>, <<"/","o","d","a","t","a","f","e","e","d","/","U","n","i","t","s">>, <<>>) EXCEPT !.method = "POST"],
    [Get(Null, <<"/","o","d","a","t","a","f","e","e","d","/","U","n","i","t","s">>, <<>>) EXCEPT !.method = "DELETE"] }

AuthOk(token, expiration) ==
  [kind |-> "response", status |-> 200, json |-> TRUE, token |-> token, expiration |-> expiration]

\* a 200 of the auth endpoint whose body is an HTML page
AuthGarbled == [AuthOk(Null, Null) EXCEPT !.json = FALSE]

AuthReplies ==
  { AuthOk(<<"h",".","e","6","0","0",".","s">>, Null),
    AuthOk(<<"b","a","r","e">>, <<"s","o","o","n">>),
    AuthOk(Null, Null),
    [AuthOk(Null, Null) EXCEPT !.status = 401],
    AuthGarbled,
    [kind |-> "throw", message |-> <<"N","e","t","w","o","r","k"," ","c","o","n","n","e","c","t","i","o","n"," ","l","o","s","t",".">>] }

DataOf(status, body) == [kind |-> "response", status |-> status, body |-> body]

DataReplies ==
  { DataOf(200, JsonBody("pretty", Envelope(<<RowClean, RowForbidden>>))),
    DataOf(200, JsonBody("compact", RowForbidden)),
    DataOf(404, JsonBody("compact", JObj(<<Member(<<"e","r","r","o","r">>, JObj(<<Member(<<"m","e","s","s","a","g","e">>,
             JStr(<<"W","a","l","s"," ","H","u","r","e","n">>))>>))>>))),
    DataOf(400, JsonBody("compact", JObj(<<Member(<<"e","r","r","o","r">>, JObj(<<Member(<<"c","o","d","e">>,
             JStr(<<"B","a","d","R","e","q","u","e","s","t">>))>>))>>))),
    DataOf(502, TextBody(<<"B","a","d"," ","G","a","t","e","w","a","y">>)),
    [kind |-> "throw", message |-> <<"N","e","t","w","o","r","k"," ","c","o","n","n","e","c","t","i","o","n"," ","l","o","s","t",".">>] }

Instants == { T0, T0 + 300, T0 + 301 }

Init == Boot(<<>>) /\ probe = NoProbe

Next ==
  \/ \E r \in Slots, q \in Requests : Request(r, q)
  \/ \E r \in Slots, a \in AuthReplies : AuthReply(r, a)
  \/ \E r \in Slots, d \in DataReplies : DataReply(r, d, IF d.kind = "throw" THEN NoBody ELSE d.body)
  \/ \E r \in Slots : Retire(r)
  \/ \E t \in Instants : Tick(t)

Spec == Init /\ [][Next]_vars

(***************************************************************************)
(* Properties of the worker.                                               *)
(***************************************************************************)
\* the Authorization header is missing, is not "Bearer <x>", or its <x> is
\* not the configured key
BadCredentials(request) ==
  \/ request.authorization = Null
  \/ Len(request.authorization) < 7
  \/ SubSeq(request.authorization, 1, 7) # <<"B","e","a","r","e","r"," ">>
  \/ SubSeq(request.authorization, 8, Len(request.authorization)) # env.PROXY_API_KEY

AuthRequestsOf(r) == {i \in 1..Len(sent[r]) : sent[r][i].to = "auth"}

DataRequestsOf(r) == {i \in 1..Len(sent[r]) : sent[r][i].to = "data"}

\* C1 (auth precedence): a request whose Authorization header is missing, is
\* not of the form Bearer <x>, or names another key than the configured one,
\* causes no upstream request at all, neither to the auth endpoint nor to the
\* OData service, whatever its path or query and whatever the token cache holds.
AuthPrecedence ==
  \A r \in Slots : pc[r] # "idle" /\ BadCredentials(req[r]) => sent[r] = <<>> /\ pc[r] = "done"

\* a GET with a wrong key was refused while the token cache was empty in one
\* invocation, and another was refused while a token was cached
AuthPrecedenceWitness ==
  \E r \in Slots :
    /\ pc[r] = "done" /\ req[r].method = "GET" /\ req[r].authorization = <<"B","e","a","r","e","r"," ","n","o","p","e">>
    /\ resp[r].status = 401
    /\ cachedToken # Null /\ tokenExpiry > now + 300

NoFilterFor(request, entityName) ==
  /\ entityName # Null
  /\ toLowerCase(entityName) \in {<<"f","i","n","a","n","c","i","a","l","m","u","t","a","t","i","o","n","s">>, <<"j","o","u","r","n","a","l","p","o","s","t","t","r","a","n","s","a","c","t","i","o","n","s">>}
  /\ \A p \in {validateAndFixQuery(request.search, entityName)} :
       \A i \in 1..Len(p) : p[i].name # <<"$","f","i","l","t","e","r">>

\* an authenticated GET of an entity that requires a filter, without $filter
LacksRequiredFilter(request) ==
  /\ request.method = "GET" /\ ~BadCredentials(request)
  /\ NoFilterFor(request, EntityOf(request.pathname))

\* C2 (required-filter guardrail): an authenticated GET of FinancialMutations
\* or JournalPostTransactions (in any case) whose sanitised query has no
\* $filter is answered 400 without any upstream request, neither a data GET
\* nor a request to the auth endpoint, whatever the token cache holds.
RequiredFilterGuardrail ==
  \A r \in Slots :
    pc[r] # "idle" /\ LacksRequiredFilter(req[r]) =>
      /\ sent[r] = <<>>
      /\ pc[r] = "done"
      /\ resp[r].status = 400

\* every string value of a document
RECURSIVE AllStrings(_)
AllStrings(doc) ==
  CASE doc.t = "string" -> {doc.s}
    [] doc.t = "array" -> UNION { AllStrings(doc.items[i]) : i \in 1..Len(doc.items) }
    [] doc.t = "object" -> UNION { AllStrings(doc.members[i].val) : i \in 1..Len(doc.members) }
    [] OTHER -> {}

\* C6 (forbidden content never leaves the proxy): no body returned for a
\* proxied request, be it a collection, a single entity, an array or the
\* error envelope of a non-2xx upstream answer, holds a string value that is
\* a forbidden owner name once trimmed and lowercased.
ForbiddenContentNeverLeaves ==
  \A r \in Slots :
    pc[r] = "done" /\ DataRequestsOf(r) # {} /\ resp[r].body.format \in {"pretty", "compact"} =>
      \A s \in AllStrings(resp[r].body.doc) : toLowerCase(trim(s)) \notin FORBIDDEN_OWNER_NAMES

\* C9 (token reuse), as stated: an acquisition at a time t <= expiry - 5 min
\* of the cached token returns that token and sends no auth request.
TokenReuseClosedWindow ==
  [][\A r \in Slots :
       /\ pc[r] = "idle" /\ local'[r].acquired
       /\ cachedToken # Null /\ cachedToken # <<>>
       /\ now <= tokenExpiry - 300
       => /\ local'[r].token = cachedToken
          /\ \A i \in 1..Len(sent'[r]) : sent'[r][i].to # "auth"]_vars

\* C9 (token reuse), amended: an acquisition at a time t < expiry - 5 min of
\* the cached (non-empty) token returns that token, sends no auth request and
\* leaves the cache as it is.
TokenReuse ==
  [][\A r \in Slots :
       /\ pc[r] = "idle" /\ local'[r].acquired
       /\ cachedToken # Null /\ cachedToken # <<>>
       /\ now < tokenExpiry - 300
       => /\ local'[r].token = cachedToken
          /\ \A i \in 1..Len(sent'[r]) : sent'[r][i].to # "auth"
          /\ cachedToken' = cachedToken /\ tokenExpiry' = tokenExpiry]_vars

\* after the clock moved, a data request went out with the cached token and
\* without an auth request
TokenReuseWitness ==
  \E r \in Slots :
    /\ pc[r] = "data" /\ local[r].acquired /\ local[r].now > T0
    /\ AuthRequestsOf(r) = {}
    /\ local[r].token = cachedToken
    /\ sent[r][1].authorization = <<"B","e","a","r","e","r"," ">> \o cachedToken

\* C10 (stale tokens are never used): an acquisition that finds the cache
\* empty or its token with 5 minutes or less to live sends an auth request,
\* and then fails or returns the token of the new auth response; a data
\* request carries either that new token or a cached one that had more
\* than 5 minutes left when the acquisition checked it.
StaleTokensNeverUsed ==
  [][\A r \in Slots :
       /\ ( /\ pc[r] = "idle" /\ local'[r].acquired
            /\ (cachedToken = Null \/ cachedToken = <<>> \/ tokenExpiry - now <= 300)
            => pc'[r] = "auth" /\ sent'[r] = <<AuthRequest(env)>> )
       /\ ( pc[r] = "auth" /\ pc'[r] # "auth"
            => \/ pc'[r] = "done" /\ resp'[r].status = 500 /\ DataRequestsOf(r)' = {}
               \/ /\ local'[r].token = cachedToken'
                  /\ \A i \in DataRequestsOf(r)' :
                       sent'[r][i].authorization = BearerOf(cachedToken') )
       /\ ( pc[r] = "idle" /\ pc'[r] = "data"
            => /\ tokenExpiry - now > 300
               /\ \A i \in DataRequestsOf(r)' :
                    sent'[r][i].authorization = BearerOf(cachedToken) )]_vars

\* an acquisition found a cached token with some, but no more than 5, minutes
\* to live and is waiting for the auth endpoint
StaleTokensNeverUsedWitness ==
  \E r \in Slots :
    /\ pc[r] = "auth" /\ local[r].acquired
    /\ cachedToken # Null /\ cachedToken # <<>>
    /\ tokenExpiry > local[r].now
    /\ tokenExpiry - local[r].now <= 300

(***************************************************************************)
(* The specification of the learner: learning is on, and a second run of   *)
(* the learner is fed, at every data reply, a body with the keys of the    *)
(* first run's body and other values.                                      *)
(***************************************************************************)
RowWide ==
  JObj(<<Member(<<"@","o","d","a","t","a",".","e","t","a","g">>, JStr(<<"W","/","1">>)), Member(<<"I","d">>, JNum(7)),
         Member(<<"O","w","n","e","r","N","a","m","e">>, JStr(<<"C","a","r","o","l">>)), Member(<<"C","i","t","y">>, JStr(<<"D","e","l","f","t">>))>>)

RowWideOther ==
  JObj(<<Member(<<"@","o","d","a","t","a",".","e","t","a","g">>, JStr(<<"W","/","2">>)), Member(<<"I","d">>, JNum(8)),
         Member(<<"O","w","n","e","r","N","a","m","e">>, JStr(<<"D","a","v","e">>)), Member(<<"C","i","t","y">>, JStr(<<"G","o","u","d","a">>))>>)

LearnRows == { RowClean, RowForbidden, RowWide, RowWideOther }

LearnBodies ==
  { JsonBody("pretty", Envelope(rows)) :
      rows \in { <<RowClean>>, <<RowForbidden>>, <<RowWide>>, <<RowWideOther>>,
                 <<RowClean, RowWide>>, <<RowForbidden, RowWideOther>> } }

\* two documents with the same keys: they differ at most in their scalars
RECURSIVE SameKeys(_, _)
SameKeys(a, b) ==
  /\ a.t = b.t
  /\ a.t = "array" =>
       /\ Len(a.items) = Len(b.items)
       /\ \A i \in 1..Len(a.items) : SameKeys(a.items[i], b.items[i])
  /\ a.t = "object" =>
       /\ Len(a.members) = Len(b.members)
       /\ \A i \in 1..Len(a.members) :
            /\ a.members[i].key = b.members[i].key
            /\ SameKeys(a.members[i].val, b.members[i].val)

TwinsOf(body) == {b \in LearnBodies : b # body /\ SameKeys(b.doc, body.doc)}

LearnRequests ==
  { Get(<<"B","e","a","r","e","r"," ","k","e","y">>, <<"/","o","d","a","t","a","f","e","e","d","/","U","n","i","t","s">>, <<>>),
    Get(<<"B","e","a","r","e","r"," ","k","e","y">>, <<"/","o","d","a","t","a","f","e","e","d","/","$","l","e","a","r","n","-","s","u","m","m","a","r","y">>, <<>>),
    Get(<<"B","e","a","r","e","r"," ","k","e","y">>, <<"/","o","d","a","t","a","f","e","e","d","/","$","l","e","a","r","n","-","s","u","m","m","a","r","y">>, <<Param(<<"e","n","t","i","t","y">>, <<"U","n","i","t","s">>)>>),
    Get(Null, <<"/","o","d","a","t","a","f","e","e","d","/","$","l","e","a","r","n","-","s","u","m","m","a","r","y">>, <<>>),
    Get(<<"B","e","a","r","e","r"," ","n","o","p","e">>, <<"/","o","d","a","t","a","f","e","e","d","/","$","l","e","a","r","n","-","s","u","m","m","a","r","y">>, <<Param(<<"e","n","t","i","t","y">>, <<"U","n","i","t","s">>)>>),
    Get(<<"B","e","a","r","e","r"," ","k","e","y">>, <<"/","o","d","a","t","a","f","e","e","d","/","$","m","e","t","a","d","a","t","a","-","s","u","m","m","a","r","y">>, <<>>),
    Get(<<"k","e","y">>, <<"/","o","d","a","t","a","f","e","e","d","/","$","m","e","t","a","d","a","t","a","-","s","u","m","m","a","r","y">>, <<>>) }

LearnInstants == { T0, T0 + 86400, T0 + 86401 }

InitLearn == Boot(<<"t","r","u","e">>) /\ probe = NoProbe

\* the invocations that run at a time
LearnSlots == {"r1"}

NextLearn ==
  \/ \E r \in LearnSlots, q \in LearnRequests : Request(r, q)
  \/ \E r \in LearnSlots : AuthReply(r, AuthOk(<<"b","a","r","e">>, <<"s","o","o","n">>))
  \/ \E r \in LearnSlots, b \in LearnBodies : \E twin \in TwinsOf(b) : DataReply(r, DataOf(200, b), twin)
  \/ \E r \in LearnSlots : LearnStep(r)
  \/ \E r \in LearnSlots : SummaryRecord(r)
  \/ \E r \in LearnSlots : SummaryIndex(r)
  \/ \E r \in LearnSlots : SummaryRecords(r)
  \/ \E r \in LearnSlots : Retire(r)
  \/ \E t \in LearnInstants : Tick(t)

SpecLearn == InitLearn /\ [][NextLearn]_vars

(***************************************************************************)
(* Properties of the learner.                                              *)
(***************************************************************************)
\* the top-level keys the upstream has in its rows, @odata. keys aside
TopLevelKeys ==
  UNION { {row.members[i].key : i \in {j \in 1..Len(row.members) :
                                         ~startsWith(row.members[j].key, <<"@","o","d","a","t","a",".">>)}}
          : row \in {x \in LearnRows : x.t = "object"} }

IsEntityRecord(entry) == startsWith(entry.key, <<"l","e","a","r","n",":","e","n","t","i","t","y",":">>)

FieldsOf(entry) ==
  LET fields == entry.value.members[CHOOSE i \in 1..Len(entry.value.members) :
                                      entry.value.members[i].key = <<"f","i","e","l","d","s">>].val
  IN  {fields.items[i].s : i \in 1..Len(fields.items)}

FieldsAreKeys ==
  \A entry \in kv \cup kvTwin : IsEntityRecord(entry) => FieldsOf(entry) \subseteq TopLevelKeys

\* C8 (learner confidentiality), as stated: what is written to KV depends on
\* entity names, top-level field names and the clock only, so two runs fed
\* responses with the same keys and other values hold the same KV records;
\* and every element of a stored fields array is a top-level key that does
\* not begin with @odata.
LearnerConfidentiality == kv = kvTwin /\ FieldsAreKeys

\* C8 (learner confidentiality), amended: two runs fed responses with the
\* same keys and other values, in which the same rows name a forbidden
\* owner, hold the same KV records; and every element of a stored fields
\* array is a top-level key that does not begin with @odata.
LearnerConfidentialityOfRedacted == (aligned => kv = kvTwin) /\ FieldsAreKeys

\* both runs, fed other values, have written the record of Units with the
\* wide row's keys and the index, and the record has been refreshed a day later
LearnerConfidentialityWitness ==
  /\ aligned /\ kv = kvTwin
  /\ \E entry \in kv :
       /\ IsEntityRecord(entry)
       /\ FieldsOf(entry) = {<<"C","i","t","y">>, <<"I","d">>, <<"O","w","n","e","r","N","a","m","e">>}
       /\ LastWriteOf(entry.value) > T0
  /\ \E entry \in kv : entry.key = LEARN_INDEX_KEY


(***************************************************************************)
(* Properties of concurrent refreshes.                                     *)
(***************************************************************************)
\* an answer of the auth endpoint that yields a token entry
Refreshes(a) == a.kind = "response" /\ a.status \in 200..299 /\ a.json

\* the cache entry one auth response yields for an acquisition begun at t:
\* its token, with the exp of the JWT, else the fallback lifetime after t
EntryOf(a, t) == <<a.token, IF a.token = <<"h",".","e","6","0","0",".","s">> THEN T0 + 600 ELSE t + 3300>>

\* the cache is empty or holds the entry of one auth response
CachePaired ==
  \/ <<cachedToken, tokenExpiry>> = <<Null, 0>>
  \/ \E a \in AuthReplies, t \in Instants :
       Refreshes(a) /\ <<cachedToken, tokenExpiry>> = EntryOf(a, t)

\* the refresh that completes in a step writes its own entry, a refresh that
\* fails writes nothing, and nothing else writes the cache
LastRefreshWins ==
  /\ \A r \in Slots :
       pc[r] = "auth" /\ pc'[r] # "auth" =>
         IF Refreshes(local'[r].heard[1])
         THEN <<cachedToken', tokenExpiry'>> = EntryOf(local'[r].heard[1], local[r].now)
         ELSE <<cachedToken', tokenExpiry'>> = <<cachedToken, tokenExpiry>>
  /\ <<cachedToken', tokenExpiry'>> # <<cachedToken, tokenExpiry>> =>
       \E r \in Slots : pc[r] = "auth" /\ pc'[r] # "auth"

\* C11 (benign refresh race): under any interleaving of requests that refresh
\* the token, the cache always holds a token and an expiry computed from one
\* and the same auth response, and the refresh that completes last wins.
BenignRefreshRace == []CachePaired /\ [][LastRefreshWins]_vars

\* two invocations refreshed at the same time, the answer of one arrived after
\* the other's, and the cache holds the entry of the later answer
BenignRefreshRaceWitness ==
  /\ Len(local["r1"].heard) >= 1 /\ Len(local["r2"].heard) >= 1
  /\ local["r1"].heard[1] = AuthOk(<<"b","a","r","e">>, <<"s","o","o","n">>)
  /\ local["r2"].heard[1] = AuthOk(<<"h",".","e","6","0","0",".","s">>, Null)
  /\ local["r1"].now = T0 /\ local["r2"].now = T0
  /\ <<cachedToken, tokenExpiry>> = <<<<"h",".","e","6","0","0",".","s">>, T0 + 600>>


(***************************************************************************)
(* Properties of the gates of fetch.                                       *)
(***************************************************************************)
IsSpecialEndpoint(request) ==
  request.pathname \in {<<"/","o","d","a","t","a","f","e","e","d","/","$","m","e","t","a","d","a","t","a","-","s","u","m","m","a","r","y">>, <<"/","o","d","a","t","a","f","e","e","d","/","$","l","e","a","r","n","-","s","u","m","m","a","r","y">>}

\* the body {"error": message}
ErrorBody(message) == JsonBody("compact", JObj(<<Member(<<"e","r","r","o","r">>, JStr(message))>>))

\* the 401 of the credential check: no summary document, and no KV read begun
Refused(r) ==
  /\ pc[r] = "done"
  /\ resp[r].status = 401
  /\ resp[r].body \in {ErrorBody(<<"M","i","s","s","i","n","g"," ","o","r"," ","i","n","v","a","l","i","d"," ","A","u","t","h","o","r","i","z","a","t","i","o","n"," ","h","e","a","d","e","r">>),
                       ErrorBody(<<"I","n","v","a","l","i","d"," ","A","P","I"," ","k","e","y">>)}

\* C12 (special endpoints are auth-gated): a GET of $metadata-summary or of
\* $learn-summary whose short key is missing or invalid receives 401 and never
\* the summary document; a summary is produced only for a request that passed
\* both credential checks.
SpecialEndpointsGated ==
  \A r \in Slots :
    pc[r] # "idle" /\ req[r].method = "GET" /\ IsSpecialEndpoint(req[r]) =>
      /\ BadCredentials(req[r]) => Refused(r)
      /\ resp[r] # NoResponse /\ resp[r].status = 200 => ~BadCredentials(req[r])

\* a GET of $learn-summary with a wrong key was refused while the store held
\* a learned record
SpecialEndpointsGatedWitness ==
  \E r \in Slots :
    /\ req[r].method = "GET" /\ req[r].pathname = <<"/","o","d","a","t","a","f","e","e","d","/","$","l","e","a","r","n","-","s","u","m","m","a","r","y">>
    /\ req[r].authorization = <<"B","e","a","r","e","r"," ","n","o","p","e">>
    /\ Refused(r)
    /\ kv # {}


\* an invocation that answered at once: nothing sent upstream, no KV read
\* awaited and no learner task started
AnsweredAtOnce(r) == pc[r] = "done" /\ sent[r] = <<>> /\ task[r] = IdleTask

\* the step in which invocation r takes a request leaves the token cache and
\* the KV store as they were
Untouched(r) ==
  pc[r] = "idle" /\ pc'[r] # "idle" =>
    /\ <<cachedToken', tokenExpiry'>> = <<cachedToken, tokenExpiry>>
    /\ kv' = kv

MethodRefused ==
  \A r \in Slots :
    pc[r] # "idle" /\ req[r].method \notin {"GET", "OPTIONS"} =>
      /\ AnsweredAtOnce(r)
      /\ resp[r].status = 405
      /\ resp[r].body = ErrorBody(<<"M","e","t","h","o","d"," ","n","o","t"," ","a","l","l","o","w","e","d">>)

\* C13 (method gate): every request whose method is neither GET nor OPTIONS
\* receives 405 with the body {error: 'Method not allowed'}, with or without a
\* valid short key, and causes no upstream request, no change of the token
\* cache and no KV access.
MethodGate ==
  /\ []MethodRefused
  /\ [][\A r \in Slots : req'[r].method \notin {"GET", "OPTIONS", "NONE"} => Untouched(r)]_vars

\* a POST with the valid key and a DELETE without a key were both refused with
\* 405 while a token was cached
MethodGateWitness ==
  /\ req["r1"].method = "POST" /\ ~BadCredentials(req["r1"])
  /\ req["r2"].method = "DELETE" /\ BadCredentials(req["r2"])
  /\ resp["r1"].status = 405 /\ resp["r2"].status = 405
  /\ cachedToken # Null

PreflightAnswered ==
  \A r \in Slots :
    pc[r] # "idle" /\ req[r].method = "OPTIONS" =>
      /\ AnsweredAtOnce(r)
      /\ resp[r].status = 204
      /\ resp[r].body = NoBody
      /\ {AllowOrigin, AllowMethods, AllowHeaders} \subseteq resp[r].headers

\* C14 (preflight): every OPTIONS request, with or without an Authorization
\* header and for any path, receives 204 with an empty body and the CORS
\* headers, and causes no upstream request, no change of the token cache and
\* no KV access.
Preflight ==
  /\ []PreflightAnswered
  /\ [][\A r \in Slots : req'[r].method = "OPTIONS" => Untouched(r)]_vars

\* an OPTIONS without Authorization and one with the key, for another path,
\* were both answered 204 while a token was cached
PreflightWitness ==
  /\ req["r1"].method = "OPTIONS" /\ req["r1"].authorization = Null
  /\ req["r2"].method = "OPTIONS" /\ req["r2"].authorization # Null
  /\ req["r1"].pathname # req["r2"].pathname
  /\ resp["r1"].status = 204 /\ resp["r2"].status = 204
  /\ cachedToken # Null


(***************************************************************************)
(* Properties of the rewriting of $top and $orderby.                       *)
(***************************************************************************)
\* text that is a decimal integer: digits only
IsIntegerText(text) ==
  text # <<>> /\ \A i \in 1..Len(text) : text[i] \in {"0", "1", "2", "3", "4", "5", "6", "7", "8", "9"}

RECURSIVE IntegerOf(_)
IntegerOf(text) ==
  IF text = <<>> THEN 0
  ELSE 10 * IntegerOf(SubSeq(text, 1, Len(text) - 1))
         + (CHOOSE d \in 0..9 : String(d) = <<text[Len(text)]>>)

Smaller(a, b) == IF a < b THEN a ELSE b

\* the $top the rule asks for, Null for none, given the $top of the input
TopRule(top, entityName) ==
  IF IsIntegerText(top) /\ IntegerOf(top) > 0
  THEN String(Smaller(IntegerOf(top), TopCapFor(entityName)))
  ELSE Null

SameNumber(a, b) ==
  IF a = Null \/ b = Null THEN a = b
  ELSE IsIntegerText(a) /\ IsIntegerText(b) /\ IntegerOf(a) = IntegerOf(b)

\* C15 ($top drop rule): when the $top of the input is zero, negative or not
\* an integer ('abc', '1.5', '12abc') the rewritten query has no $top; when it
\* is a positive integer t the rewritten $top is min(t, cap of the entity).
TopDropRule ==
  Sanitised /\ ParamsHas(probe.search, <<"$","t","o","p">>) =>
    SameNumber(ParamsGet(probe.out, <<"$","t","o","p">>),
               TopRule(ParamsGet(probe.search, <<"$","t","o","p">>), probe.entityName))


\* the field of the catalog that a name spells, whatever its case; Null for none
CatalogSpelling(name, fields) ==
  IF \E i \in 1..Len(fields) : toLowerCase(fields[i]) = toLowerCase(name)
  THEN fields[CHOOSE i \in 1..Len(fields) : toLowerCase(fields[i]) = toLowerCase(name)]
  ELSE Null

\* a valid segment as the rule writes it, from its words
WrittenSegment(words, fields) ==
  CatalogSpelling(words[1], fields)
    \o (IF Len(words) >= 2 /\ toLowerCase(words[2]) = <<"d","e","s","c">> THEN <<" ","d","e","s","c">> ELSE <<>>)

\* the valid segments of a list of segments, rewritten, in their order
RECURSIVE ValidSegments(_, _)
ValidSegments(segments, fields) ==
  IF segments = <<>> THEN <<>>
  ELSE IF trim(Head(segments)) # <<>>
          /\ CatalogSpelling(splitWhiteSpace(trim(Head(segments)))[1], fields) # Null
  THEN <<WrittenSegment(splitWhiteSpace(trim(Head(segments))), fields)>>
         \o ValidSegments(Tail(segments), fields)
  ELSE ValidSegments(Tail(segments), fields)

ValidOrderBy(orderBy, entityName) ==
  ValidSegments(split(orderBy, ","), getKnownSortableFields(entityName))

HasOrderBy ==
  /\ Sanitised
  /\ ParamsGet(probe.search, <<"$","o","r","d","e","r","b","y">>) # Null
  /\ ParamsGet(probe.search, <<"$","o","r","d","e","r","b","y">>) # <<>>

SafeField(fields) ==
  IF \E i \in 1..Len(fields) : endsWith(fields[i], <<"I","d">>) \/ fields[i] = <<"R","e","f","e","r","e","n","c","e">>
  THEN fields[CHOOSE i \in 1..Len(fields) :
                /\ endsWith(fields[i], <<"I","d">>) \/ fields[i] = <<"R","e","f","e","r","e","n","c","e">>
                /\ \A j \in 1..(i - 1) : ~(endsWith(fields[j], <<"I","d">>) \/ fields[j] = <<"R","e","f","e","r","e","n","c","e">>)]
  ELSE fields[1]

IsPassedThrough(param) == param.name \notin {<<"$","t","o","p">>, <<"$","o","r","d","e","r","b","y">>}

HeardFromAuth(r) == AuthRequestsOf(r) # {} /\ Len(local[r].heard) >= 1

\* C19 (token acquisition failure): when a data request needs a token and the
\* auth endpoint answers non-2xx, cannot be reached, or answers with a body
\* that is not JSON, the proxy replies 500 with {error: 'Failed to get Bloxs
\* token: <reason>'} and sends no data GET for that request.
TokenAcquisitionFailure ==
  \A r \in Slots :
    HeardFromAuth(r) /\ ~Refreshes(local[r].heard[1]) =>
      /\ pc[r] = "done"
      /\ resp[r].status = 500
      /\ resp[r].body.format = "compact"
      /\ HasKey(resp[r].body.doc, <<"e","r","r","o","r">>)
      /\ startsWith(GetKey(resp[r].body.doc, <<"e","r","r","o","r">>).s, <<"F","a","i","l","e","d"," ","t","o"," ","g","e","t"," ","B","l","o","x","s"," ","t","o","k","e","n",":"," ">>)
      /\ local[r].heard[1].kind = "response" /\ local[r].heard[1].status \notin 200..299 =>
           resp[r].body = ErrorBody(<<"F","a","i","l","e","d"," ","t","o"," ","g","e","t"," ","B","l","o","x","s"," ","t","o","k","e","n",":"," ","B","l","o","x","s"," ","a","u","t","h"," ","f","a","i","l","e","d",":"," ">>
                                      \o String(local[r].heard[1].status))
      /\ DataRequestsOf(r) = {}

\* one invocation was refused by the auth endpoint, the other got a page that
\* is not JSON, and both replied 500
TokenAcquisitionFailureWitness ==
  /\ HeardFromAuth("r1") /\ local["r1"].heard[1].kind = "response"
  /\ local["r1"].heard[1].status = 401
  /\ HeardFromAuth("r2") /\ local["r2"].heard[1] = AuthGarbled
  /\ resp["r1"].status = 500 /\ resp["r2"].status = 500

\* the answer invocation r had from the OData service is an upstream error
HeardError(r) ==
  /\ DataRequestsOf(r) # {}
  /\ Len(local[r].heard) = Len(sent[r])
  /\ local[r].heard[Len(sent[r])].kind = "response"
  /\ local[r].heard[Len(sent[r])].status \notin 200..299

\* the error.message of an upstream body, Undefined when it carries none
UpstreamMessage(body) ==
  IF IsJson(body) THEN GetKey(GetKey(body.doc, <<"e","r","r","o","r">>), <<"m","e","s","s","a","g","e">>) ELSE Undefined

\* the upstream status with the five keys of the envelope
IsEnvelopeOf(response, d, entityName) ==
  /\ response.status = d.status
  /\ IsJson(response.body)
  /\ response.body.doc.t = "object"
  /\ Len(response.body.doc.members) >= 5
  /\ [i \in 1..5 |-> response.body.doc.members[i].key]
       = <<<<"e","r","r","o","r">>, <<"s","t","a","t","u","s">>, <<"e","n","t","i","t","y">>, <<"s","u","g","g","e","s","t","i","o","n">>, <<"a","v","a","i","l","a","b","l","e","F","i","e","l","d","s">>>>
  /\ GetKey(response.body.doc, <<"s","t","a","t","u","s">>) = JNum(d.status)
  /\ GetKey(response.body.doc, <<"e","n","t","i","t","y">>) = JStr(entityName)

ErrorWithoutMessage(body) ==
  IF IsJson(body) /\ Truthy(GetKey(body.doc, <<"e","r","r","o","r">>)) THEN GetKey(body.doc, <<"e","r","r","o","r">>)
  ELSE JObj(<<Member(<<"e","r","r","o","r">>, JStr(<<"U","n","k","n","o","w","n"," ","e","r","r","o","r">>)), Member(<<"d","e","t","a","i","l","s">>, RawText(body))>>)

Stored == probe.kind = "expiry" /\ probe.done

\* the token is a three-part JWT whose payload carries a numeric exp
HasNumericExp(token) ==
  /\ token # Null
  /\ Len(split(token, ".")) = 3
  /\ DecodePayload(split(token, ".")[2]).json
  /\ DecodePayload(split(token, ".")[2]).numeric

ExpOf(token) == DecodePayload(split(token, ".")[2]).exp

\* C24 (expiry from the JWT comes first): whenever the token of the auth
\* response is a three-part JWT whose payload carries a numeric exp, be it 0
\* or an instant in the past, the stored expiry is exp (times 1000, in ms),
\* whatever the expiration field holds.
ExpiryFromJwt ==
  (Stored /\ HasNumericExp(probe.body.token)) => probe.out = ExpOf(probe.body.token)

\* the days of a month of the Gregorian calendar
DaysInMonth(year, month) ==
  IF month = 2
  THEN IF (year % 4 = 0 /\ year % 100 # 0) \/ year % 400 = 0 THEN 29 ELSE 28
  ELSE IF month \in {4, 6, 9, 11} THEN 30 ELSE 31

IsCalendarDate(year, month, day) ==
  month \in 1..12 /\ day >= 1 /\ day <= DaysInMonth(year, month)

InstantOf(x, month, day) == DateUTC(x.year, month - 1, day, x.hour, x.minute, x.second)

\* the reading of an expiration string: day first, else month first, else
\* none (0)
ReadingOf(x) ==
  IF ~x.form THEN 0
  ELSE IF IsCalendarDate(x.year, x.b, x.a) THEN InstantOf(x, x.b, x.a)
  ELSE IF IsCalendarDate(x.year, x.a, x.b) THEN InstantOf(x, x.a, x.b)
  ELSE 0

IsJwt(token) == token # Null /\ Len(split(token, ".")) = 3

\* C25 (expiry from the expiration string): for a token that is not a JWT and
\* an expiration A/B/YYYY[ H:M[:S]], the stored expiry is the UTC instant of
\* day A, month B when that is a calendar date, else of month A, day B when
\* that is a calendar date, and now + 55 minutes when neither is one or the
\* string is not of that form.
ExpiryFromExpiration ==
  \A x \in Expirations :
    (Stored /\ ~IsJwt(probe.body.token) /\ probe.body.expiration = x.text) =>
      probe.out = IF ReadingOf(x) # 0 THEN ReadingOf(x) ELSE now + TOKEN_FALLBACK_LIFETIME


(***************************************************************************)
(* The specification of the faults: one invocation at a time, under each   *)
(* of the deployments below, with an auth endpoint, an OData service and a *)
(* KV namespace that can fail.  The second run of the learner is fed the   *)
(* bodies of the first.                                                    *)
(***************************************************************************)
\* the bindings the worker is deployed with: learning on, off by an unset
\* flag, off by a flag that is none of 1, true, yes, and off for want of a
\* KV namespace
Environments ==
  { Environment(<<"Y","e","s">>), Environment(<<>>), Environment(<<"o","n">>),
    [Environment(<<"T","R","U","E">>) EXCEPT !.LEARNING_KV = FALSE] }

FaultRequests ==
  { Get(<<"B","e","a","r","e","r"," ","k","e","y">>, <<"/","o","d","a","t","a","f","e","e","d","/","U","n","i","t","s">>, <<>>),
    Get(<<"B","e","a","r","e","r"," ","k","e","y">>, <<"/","o","d","a","t","a","f","e","e","d","/","$","l","e","a","r","n","-","s","u","m","m","a","r","y">>, <<>>),
    Get(<<"B","e","a","r","e","r"," ","k","e","y">>, <<"/","o","d","a","t","a","f","e","e","d","/","$","l","e","a","r","n","-","s","u","m","m","a","r","y">>, <<Param(<<"e","n","t","i","t","y">>, <<"U","n","i","t","s">>)>>) }

Thrown(message) == [kind |-> "throw", message |-> message]

FaultAuthReplies ==
  { AuthOk(<<"b","a","r","e">>, <<"s","o","o","n">>),
    [AuthOk(Null, Null) EXCEPT !.status = 503],
    AuthGarbled,
    Thrown(<<"N","e","t","w","o","r","k"," ","c","o","n","n","e","c","t","i","o","n"," ","l","o","s","t",".">>) }

FaultDataReplies ==
  { DataOf(200, JsonBody("pretty", Envelope(<<RowClean>>))),
    DataOf(200, JsonBody("pretty", Envelope(<<RowWide>>))),
    DataOf(200, TextBody(<<"O","K">>)),
    DataOf(201, JsonBody("pretty", Envelope(<<RowClean>>))),
    DataOf(204, TextBody(<<>>)),
    DataOf(404, JsonBody("compact", JObj(<<Member(<<"e","r","r","o","r">>, JObj(<<Member(<<"m","e","s","s","a","g","e">>, JStr(<<"N","o","t"," ","f","o","u","n","d">>))>>))>>))),
    Thrown(<<"N","e","t","w","o","r","k"," ","c","o","n","n","e","c","t","i","o","n"," ","l","o","s","t",".">>),
    Thrown(<<"C","o","n","n","e","c","t","i","o","n"," ","r","e","s","e","t"," ","w","h","i","l","e"," ","r","e","a","d","i","n","g"," ","t","h","e"," ","b","o","d","y">>) }

FaultInstants == { T0, T0 + 86401 }

InitFaults == (\E e \in Environments : Load(e)) /\ probe = NoProbe

FaultSlots == {"r1"}

NextFaults ==
  \/ \E r \in FaultSlots, q \in FaultRequests : Request(r, q)
  \/ \E r \in FaultSlots, a \in FaultAuthReplies : AuthReply(r, a)
  \/ \E r \in FaultSlots, d \in FaultDataReplies :
       DataReply(r, d, IF d.kind = "throw" THEN NoBody ELSE d.body)
  \/ \E r \in FaultSlots : LearnStep(r)
  \/ \E r \in FaultSlots : LearnFail(r)
  \/ \E r \in FaultSlots : SummaryRecord(r)
  \/ \E r \in FaultSlots : SummaryIndex(r)
  \/ \E r \in FaultSlots : SummaryRecords(r)
  \/ \E r \in FaultSlots : SummaryFail(r)
  \/ \E r \in FaultSlots : Retire(r)
  \/ \E t \in FaultInstants : Tick(t)

SpecFaults == InitFaults /\ [][NextFaults]_vars


(***************************************************************************)
(* Properties of the data fetch.                                           *)
(***************************************************************************)
\* the last answer the invocation heard, once every request it sent is answered
LastHeard(r) == local[r].heard[Len(sent[r])]

HeardFromData(r) == DataRequestsOf(r) # {} /\ Len(local[r].heard) = Len(sent[r])

HeardThrow(r) == HeardFromData(r) /\ LastHeard(r).kind = "throw"

\* C21 (transport failure): when the data GET fails at transport level (the
\* fetch throws or the body cannot be read), the proxy replies 502 with
\* {error: 'Failed to fetch from Bloxs: <reason>'}, and no learner task is
\* started for that request.
TransportFailure ==
  \A r \in Slots :
    HeardThrow(r) =>
      /\ pc[r] = "done"
      /\ resp[r].status = 502
      /\ resp[r].body = ErrorBody(<<"F","a","i","l","e","d"," ","t","o"," ","f","e","t","c","h"," ","f","r","o","m"," ","B","l","o","x","s",":"," ">> \o LastHeard(r).message)
      /\ task[r] = IdleTask
      /\ local[r].trace = <<>>

\* with learning on and a record already learned, the body of a data GET
\* could not be read
TransportFailureWitness ==
  /\ isLearningEnabled(env) /\ env.LEARNING_KV /\ kv # {}
  /\ HeardThrow("r1")
  /\ LastHeard("r1").message = <<"C","o","n","n","e","c","t","i","o","n"," ","r","e","s","e","t"," ","w","h","i","l","e"," ","r","e","a","d","i","n","g"," ","t","h","e"," ","b","o","d","y">>
  /\ resp["r1"].status = 502


HeardSuccess(r) ==
  HeardFromData(r) /\ LastHeard(r).kind = "response" /\ LastHeard(r).status \in 200..299

AuthFailed(r) == HeardFromAuth(r) /\ ~Refreshes(local[r].heard[1])

DataFailed(r) ==
  HeardFromData(r) /\ (LastHeard(r).kind = "throw" \/ LastHeard(r).status \notin 200..299)

\* a response whose body is a JSON object with an error key and which
\* carries Access-Control-Allow-Origin: *
IsJsonError(response) ==
  /\ response.body.format \in {"compact", "pretty"}
  /\ response.body.doc.t = "object"
  /\ HasKey(response.body.doc, <<"e","r","r","o","r">>)
  /\ AllowOrigin \in response.headers

\* the handler has completed with a response
Responded(r) == pc[r] = "done" /\ resp[r] # NoResponse

\* C23 (every failure is a JSON error and exactly one response): whichever
\* collaborator fails (the auth endpoint, the data endpoint, a KV read of
\* $learn-summary or of the learner), the handler completes with one response
\* whose body is a JSON object with an error key and which carries
\* Access-Control-Allow-Origin: *, and no exception escapes the handler.
EveryFailureIsJsonError ==
  \A r \in Slots :
    /\ pc[r] # "threw"
    /\ pc[r] = "done" => resp[r] # NoResponse
    /\ AuthFailed(r) \/ DataFailed(r) => Responded(r) /\ IsJsonError(resp[r])


(***************************************************************************)
(* Properties of the learner's writes.                                     *)
(***************************************************************************)
\* the record the learner task of r reads: the entry of its entity, if any
RecordRead(r) == {e \in kv : e.key = <<"l","e","a","r","n",":","e","n","t","i","t","y",":">> \o task[r].entityKey}

WrittenAt(entry) ==
  entry.value.members[CHOOSE i \in 1..Len(entry.value.members) :
                        entry.value.members[i].key = <<"l","a","s","t","W","r","i","t","e","M","s">>].val.n

\* the run found a field the record lacks, or the record is older than 24 h
MustWrite(r) ==
  \/ \E f \in task[r].discovered : \A e \in RecordRead(r) : f \notin FieldsOf(e)
  \/ \A e \in RecordRead(r) : task[r].now - WrittenAt(e) > 24 * 60 * 60

Puts == {"putEntity", "putIndex"}

InTrace(r, steps) == \E i \in 1..Len(local[r].trace) : local[r].trace[i] \in steps

\* the task of r resumes with the record it read
ResumesFromRead(r) == task[r].pc = "getEntity" /\ task'[r] # task[r]

Throttled ==
  /\ \A r \in Slots :
       ResumesFromRead(r) =>
         /\ kv' = kv
         /\ IF MustWrite(r) THEN task'[r].pc = "putEntity" ELSE task'[r] = IdleTask
  /\ \A r \in Slots :
       task[r].pc = "putEntity" /\ task'[r] # task[r] =>
         \E e \in kv' : e.key = <<"l","e","a","r","n",":","e","n","t","i","t","y",":">> \o task[r].entityKey /\ WrittenAt(e) = task[r].now
  /\ kv' # kv => \E r \in Slots : task[r].pc \in Puts

\* C26 (learner write throttle): in every learner run, the record of the
\* entity is written if and only if the run discovered a field that is not in
\* the record it read, or now - lastWriteMs of that record exceeds 24 hours;
\* with no new field and a record younger than that, the run writes nothing
\* to KV.
WriteThrottle == [][Throttled]_vars

\* a run has read, exactly 24 hours after it was written, a record that holds
\* all its fields, and has ended without a write
WriteThrottleWitness ==
  /\ now = T0 + 86400 /\ local["r1"].now = T0 + 86400
  /\ pc["r1"] = "done" /\ task["r1"] = IdleTask
  /\ local["r1"].trace = <<"parse", "getEntity", "return">>
  /\ \E e \in kv : IsEntityRecord(e) /\ WrittenAt(e) = T0


(***************************************************************************)
(* Properties of the learner's switch.                                     *)
(***************************************************************************)
LearningOff ==
  \/ toLowerCase(env.ENABLE_LEARNING) \notin {<<"1">>, <<"t","r","u","e">>, <<"y","e","s">>}
  \/ ~env.LEARNING_KV

\* the invocation awaits a KV read of handleLearnSummary, or one has failed
InSummaryRead(r) == pc[r] \in {"summaryRecord", "summaryIndex", "summaryRecords", "threw"}

\* the invocation's learner has issued no KV operation, nor parsed the body
LearnerIdle(r) ==
  /\ task[r] = IdleTask
  /\ \A i \in 1..Len(local[r].trace) : local[r].trace[i] = "return"

\* C27 (learning off means no KV traffic): when ENABLE_LEARNING is none of
\* '1', 'true', 'yes' (case-insensitive) or no KV namespace is bound, no
\* request causes a KV read or write: the learner does nothing and
\* $learn-summary answers 400 without touching KV.
LearningOffNoKvTraffic ==
  LearningOff =>
    /\ kv = {}
    /\ \A r \in Slots :
         /\ LearnerIdle(r)
         /\ ~InSummaryRead(r)
         /\ (pc[r] = "done" /\ req[r].pathname = <<"/","o","d","a","t","a","f","e","e","d","/","$","l","e","a","r","n","-","s","u","m","m","a","r","y">>) =>
              /\ resp[r].status = 400
              /\ resp[r].body \in
                   { ErrorBody(<<"L","e","a","r","n","i","n","g"," ","i","s"," ","d","i","s","a","b","l","e","d","."," ","S","e","t"," ","E","N","A","B","L","E","_","L","E","A","R","N","I","N","G","=","t","r","u","e"," ","a","n","d"," ","b","i","n","d"," ","L","E","A","R","N","I","N","G","_","K","V"," ","t","o"," ","e","n","a","b","l","e",".">>),
                     ErrorBody(<<"L","e","a","r","n","i","n","g"," ","K","V"," ","i","s"," ","n","o","t"," ","c","o","n","f","i","g","u","r","e","d","."," ","B","i","n","d"," ","a"," ","K","V"," ","n","a","m","e","s","p","a","c","e"," ","t","o"," ","L","E","A","R","N","I","N","G","_","K","V",".">>) }

\* under ENABLE_LEARNING=on a data request has been answered with the rows of
\* the upstream, and its learner has done nothing
LearningOffNoKvTrafficWitness ==
  /\ env.ENABLE_LEARNING = <<"o","n">>
  /\ HeardSuccess("r1") /\ resp["r1"].status = 200
  /\ resp["r1"].body = JsonBody("pretty", Envelope(<<RowWide>>))
  /\ local["r1"].trace = <<"return">>


(***************************************************************************)
(* Properties of the learner as a background task.                         *)
(***************************************************************************)
\* the response to a 2xx answer of the upstream, from that answer alone
ResponseFor(d) ==
  [status |-> d.status, body |-> redactForbiddenOwnersFromODataJson(d.body),
   headers |-> {ContentTypeJson, AllowOrigin, AllowMethods, AllowHeaders}]

\* the response is the one of the upstream's answer (for a status without
\* body, that or the 502 of a runtime that refuses to build it)
AnswerAlone(r) ==
  \/ resp[r] = ResponseFor(LastHeard(r))
  \/ LastHeard(r).status \in NULL_BODY_STATUS /\ resp[r].status = 502

\* the handler returns in the step in which it hears the data answer, with
\* no KV operation completed, and no later step alters the response
ReturnsAtOnce ==
  \A r \in Slots :
    /\ pc[r] = "data" /\ pc'[r] # "data" =>
         pc'[r] = "done" /\ kv' = kv /\ task'[r].pc \in {"idle", "getEntity"}
    /\ resp[r] # NoResponse /\ pc'[r] # "idle" => resp'[r] = resp[r]

\* C28 (the learner cannot affect the response): for every successful data
\* request the status, headers and body the client receives are those the
\* upstream's answer determines, whether the learner succeeds, throws at the
\* parse, at a KV get or at a KV put, never completes, or is disabled, and
\* the response is returned without waiting for any KV operation.
LearnerCannotAffectResponse ==
  [](\A r \in Slots : HeardSuccess(r) => Responded(r) /\ AnswerAlone(r)) /\ [][ReturnsAtOnce]_vars

\* the learner's KV put has failed after the response went out, and the
\* response is the one of the upstream's answer
LearnerCannotAffectResponseWitness ==
  /\ HeardSuccess("r1") /\ resp["r1"] = ResponseFor(LastHeard("r1"))
  /\ local["r1"].trace = <<"parse", "getEntity", "return", "putEntity">>
  /\ task["r1"] = IdleTask /\ kv = {}


\* every step of the trace among steps comes after the return
AfterReturn(r, steps) ==
  \A i \in 1..Len(local[r].trace) :
    local[r].trace[i] \in steps => \E j \in 1..(i - 1) : local[r].trace[j] = "return"

ResumesAfterReturn ==
  \A r \in Slots : task[r] # IdleTask /\ task'[r] # task[r] => pc[r] = "done" /\ resp[r] # NoResponse

RaceRequests ==
  { Get(<<"B","e","a","r","e","r"," ","k","e","y">>, <<"/","o","d","a","t","a","f","e","e","d","/","U","n","i","t","s">>, <<>>),
    Get(<<"B","e","a","r","e","r"," ","k","e","y">>, <<"/","o","d","a","t","a","f","e","e","d","/","u","n","i","t","s">>, <<>>),
    Get(<<"B","e","a","r","e","r"," ","k","e","y">>, <<"/","o","d","a","t","a","f","e","e","d","/","O","w","n","e","r","s">>, <<>>),
    Get(<<"B","e","a","r","e","r"," ","k","e","y">>, <<"/","o","d","a","t","a","f","e","e","d","/","A","d","d","r","e","s","s","e","s">>, <<>>) }

InitRace == Boot(<<"t","r","u","e">>) /\ probe = NoProbe

NextRace ==
  \/ \E r \in Slots, q \in RaceRequests : Request(r, q)
  \/ \E r \in Slots : AuthReply(r, AuthOk(<<"h",".","e","6","0","0",".","s">>, Null))
  \/ \E r \in Slots : DataReply(r, DataOf(200, JsonBody("pretty", Envelope(<<RowClean>>))),
                                JsonBody("pretty", Envelope(<<RowClean>>)))
  \/ \E r \in Slots : LearnStep(r)
  \/ \E r \in Slots : Retire(r)

SpecRace == InitRace /\ [][NextRace]_vars

(***************************************************************************)
(* Two invocations learn the same entity from pages with different fields: *)
(* learning is on, the token stays fresh, and each page has one row.       *)
(***************************************************************************)
OverlapRequests ==
  { Get(<<"B","e","a","r","e","r"," ","k","e","y">>, <<"/","o","d","a","t","a","f","e","e","d","/","U","n","i","t","s">>, <<>>), Get(<<"B","e","a","r","e","r"," ","k","e","y">>, <<"/","o","d","a","t","a","f","e","e","d","/","u","n","i","t","s">>, <<>>) }

\* rows with the fields Id, OwnerName; Id, OwnerName, City; and Id, Street
RowStreet == JObj(<<Member(<<"I","d">>, JNum(9)), Member(<<"S","t","r","e","e","t">>, JStr(<<"M","a","r","k","t">>))>>)

OverlapBodies ==
  { JsonBody("pretty", Envelope(<<row>>)) : row \in {RowClean, RowWide, RowStreet} }

NextOverlap ==
  \/ \E r \in Slots, q \in OverlapRequests : Request(r, q)
  \/ \E r \in Slots : AuthReply(r, AuthOk(<<"h",".","e","6","0","0",".","s">>, Null))
  \/ \E r \in Slots, b \in OverlapBodies : DataReply(r, DataOf(200, b), b)
  \/ \E r \in Slots : LearnStep(r)
  \/ \E r \in Slots : Retire(r)

SpecOverlap == InitRace /\ [][NextOverlap]_vars


(***************************************************************************)
(* Properties of the index of learned entities.                            *)
(***************************************************************************)
\* the entities lists stored under learn:index:v1 (one, or none yet)
IndexLists ==
  { [i \in 1..Len(e.value.members[1].val.items) |-> e.value.members[1].val.items[i].s] :
      e \in {x \in kv : x.key = LEARN_INDEX_KEY} }

\* a comes before b in the order of code units
RECURSIVE Precedes(_, _)
Precedes(a, b) ==
  IF b = <<>> THEN FALSE
  ELSE IF a = <<>> THEN TRUE
  ELSE IF Head(a) = Head(b) THEN Precedes(Tail(a), Tail(b))
  ELSE CharCode(Head(a)) < CharCode(Head(b))

HasUpperCase(s) == \E i \in 1..Len(s), k \in 1..Len(UpperCase) : s[i] = UpperCase[k]

\* C30 (index shape): starting from an empty KV, after any sequence and any
\* interleaving of learner runs, the entities list stored under
\* learn:index:v1 is in lexicographic order, holds only lowercased entity
\* names, and holds each entity at most once.
IndexShape ==
  \A items \in IndexLists :
    /\ \A i \in 1..(Len(items) - 1) : Precedes(items[i], items[i + 1])
    /\ \A i \in 1..Len(items) : ~HasUpperCase(items[i])
    /\ \A i, j \in 1..Len(items) : items[i] = items[j] => i = j

\* the learners of two invocations in flight have both written the index,
\* which lists three entities in order
IndexShapeWitness ==
  /\ IndexLists = { <<<<"a","d","d","r","e","s","s","e","s">>, <<"o","w","n","e","r","s">>, <<"u","n","i","t","s">>>> }
  /\ InTrace("r1", {"putIndex"}) /\ InTrace("r2", {"putIndex"})
  /\ req["r1"].pathname = <<"/","o","d","a","t","a","f","e","e","d","/","A","d","d","r","e","s","s","e","s">>
  /\ req["r2"].pathname = <<"/","o","d","a","t","a","f","e","e","d","/","U","n","i","t","s">>


(***************************************************************************)
(* The frame of the token cache.                                           *)
(***************************************************************************)
CacheWritten == <<cachedToken', tokenExpiry'>> # <<cachedToken, tokenExpiry>>

\* the invocation resumes in this step with a 2xx JSON answer of the auth
\* endpoint
RefreshSucceeds(r) ==
  pc[r] = "auth" /\ pc'[r] # "auth" /\ Refreshes(local'[r].heard[1])

\* the invocation enters getBloxsToken in this step
Acquires(r) == pc[r] = "idle" /\ pc'[r] # "idle" /\ local'[r].acquired

TokenCacheFrameStep ==
  /\ CacheWritten => \E r \in Slots : RefreshSucceeds(r)
  /\ \A r \in Slots :
       Acquires(r) /\ ~TokenIsFresh(cachedToken, tokenExpiry, now) =>
         pc'[r] = "auth" /\ sent'[r] = <<AuthRequest(env)>>

\* C31 (frame of the token cache): cachedToken and tokenExpiry change only in
\* a step that resumes getBloxsToken with a successful auth response; a failed
\* data request, a failed auth attempt, a proxy-local rejection and a special
\* endpoint leave both as they were, so a failure is not remembered and the
\* next acquisition that finds no fresh token asks the auth endpoint again.
TokenCacheFrame == [][TokenCacheFrameStep]_vars

\* a token cached at T0 is no longer fresh at T0 + 301; one invocation tried
\* to refresh it then and failed, the entry is still the one of T0, and the
\* next invocation is asking the auth endpoint
TokenCacheFrameWitness ==
  /\ now = T0 + 301
  /\ <<cachedToken, tokenExpiry>> = EntryOf(AuthOk(<<"h",".","e","6","0","0",".","s">>, Null), T0)
  /\ \E r \in Slots, s \in Slots :
       /\ pc[r] = "done" /\ AuthFailed(r) /\ local[r].now = T0 + 301
       /\ pc[s] = "auth" /\ local[s].now = T0 + 301 /\ sent[s] = <<AuthRequest(env)>>


(***************************************************************************)
(* Path aliases.                                                           *)
(***************************************************************************)
CANONICAL_SEGMENTS == { <<"o","w","n","e","r","s">>, <<"C","o","m","m","e","r","c","i","a","l","O","v","e","r","v","i","e","w">> }

\* the canonical spelling a segment is a case variant of, or the segment
AliasFor(segment) ==
  IF \E c \in CANONICAL_SEGMENTS : toLowerCase(c) = toLowerCase(segment)
  THEN CHOOSE c \in CANONICAL_SEGMENTS : toLowerCase(c) = toLowerCase(segment)
  ELSE segment

\* /odatafeed/<seg>[/rest] split at the first slash after the prefix
SegmentOf(pathname) ==
  LET rest == SubSeq(pathname, Len(<<"/","o","d","a","t","a","f","e","e","d","/">>) + 1, Len(pathname))
  IN  IF IndexOfChar(rest, "/") = 0 THEN rest ELSE SubSeq(rest, 1, IndexOfChar(rest, "/") - 1)

RestOf(pathname) ==
  LET rest == SubSeq(pathname, Len(<<"/","o","d","a","t","a","f","e","e","d","/">>) + 1, Len(pathname))
  IN  IF IndexOfChar(rest, "/") = 0 THEN <<>> ELSE SubSeq(rest, IndexOfChar(rest, "/"), Len(rest))

Aliased(pathname) ==
  IF startsWith(pathname, <<"/","o","d","a","t","a","f","e","e","d","/">>) /\ ~startsWith(SegmentOf(pathname), <<"$">>)
  THEN <<"/","o","d","a","t","a","f","e","e","d","/">> \o AliasFor(SegmentOf(pathname)) \o RestOf(pathname)
  ELSE pathname

Normalised == probe.kind = "path" /\ probe.done

\* C32 (path alias normalisation): a first segment that does not start with
\* '$' and is any case variant of 'owners' or 'commercialoverview' is replaced
\* by the canonical spelling with the rest of the path unchanged, every other
\* path is forwarded unchanged, and the entity validated for is the first
\* segment of the forwarded path.
PathAliasNormalisation ==
  Normalised =>
    /\ probe.out.pathname = Aliased(probe.pathname)
    /\ probe.out.entityName = EntityOf(Aliased(probe.pathname))

\* the same for the spellings the alias map lists: they are rewritten, the
\* rest is kept, and the entity is the canonical one
ListedAliasesRewritten ==
  Normalised /\ (\E i \in 1..Len(ENTITY_PATH_ALIASES) :
                   ENTITY_PATH_ALIASES[i].segment = SegmentOf(probe.pathname))
    => /\ probe.out.pathname = Aliased(probe.pathname)
       /\ probe.out.entityName = AliasFor(SegmentOf(probe.pathname))


(***************************************************************************)
(* The read path of $learn-summary.                                        *)
(***************************************************************************)
\* the record KV holds for an entity key, JNull when it holds none
StoredRecord(entityKey) ==
  IF \E e \in kv : e.key = <<"l","e","a","r","n",":","e","n","t","i","t","y",":">> \o entityKey
  THEN (CHOOSE e \in kv : e.key = <<"l","e","a","r","n",":","e","n","t","i","t","y",":">> \o entityKey).value
  ELSE JNull

\* the list of learn:index:v1, empty when there is no index
StoredIndex == IF IndexLists = {} THEN <<>> ELSE CHOOSE list \in IndexLists : TRUE

StoredRecordsOf(entities) ==
  SelectSeq([i \in 1..Len(entities) |-> StoredRecord(entities[i])], LAMBDA record : record # JNull)

\* the invocation has answered a $learn-summary request that passed the
\* method gate and the credential check
SummaryServed(r) ==
  /\ pc[r] = "done" /\ req[r].method = "GET"
  /\ req[r].pathname = <<"/","o","d","a","t","a","f","e","e","d","/","$","l","e","a","r","n","-","s","u","m","m","a","r","y">>
  /\ req[r].authorization = <<"B","e","a","r","e","r"," ">> \o env.PROXY_API_KEY

SummaryOfEntity(r) ==
  /\ resp[r].status = 200 /\ resp[r].body.format = "pretty"
  /\ resp[r].body.doc =
       JObj(<<Member(<<"r","e","c","o","r","d">>, StoredRecord(toLowerCase(ParamsGet(req[r].search, <<"e","n","t","i","t","y">>))))>>)

SummaryOfIndex(r) ==
  /\ resp[r].status = 200 /\ resp[r].body.format = "pretty"
  /\ GetKey(resp[r].body.doc, <<"e","n","t","i","t","i","e","s">>) = JArr(JTexts(StoredIndex))
  /\ GetKey(resp[r].body.doc, <<"e","n","t","i","t","y","C","o","u","n","t">>) = JNum(Len(StoredIndex))
  /\ GetKey(resp[r].body.doc, <<"r","e","c","o","r","d","s">>) = JArr(StoredRecordsOf(StoredIndex))

SummaryReadsOnly ==
  \A r \in Slots : InSummaryRead(r) /\ pc'[r] # pc[r] => kv' = kv

LearnSummaryAnswers ==
  \A r \in Slots :
    SummaryServed(r) =>
      IF ParamsGet(req[r].search, <<"e","n","t","i","t","y">>) \in {Null, <<>>}
      THEN SummaryOfIndex(r) ELSE SummaryOfEntity(r)

\* C33 ($learn-summary read path): with learning on and a KV handle, a request
\* with entity=<x> is answered 200 {record: r}, r the record stored under
\* learn:entity:<lowercased x> or null; a request without it is answered 200
\* with entities the stored index list, entityCount its length and records
\* exactly the stored records of the indexed entities; the read path writes
\* nothing to KV.
LearnSummaryReadPath == []LearnSummaryAnswers /\ [][SummaryReadsOnly]_vars

\* the summary of a store that holds the record of Units has been served
LearnSummaryReadPathWitness ==
  \E r \in Slots :
    /\ SummaryServed(r) /\ ParamsGet(req[r].search, <<"e","n","t","i","t","y">>) = Null
    /\ StoredIndex = << <<"u","n","i","t","s">> >>
    /\ GetKey(resp[r].body.doc, <<"e","n","t","i","t","y","C","o","u","n","t">>) = JNum(1)
    /\ GetKey(resp[r].body.doc, <<"r","e","c","o","r","d","s">>) = JArr(<<StoredRecord(<<"u","n","i","t","s">>)>>)
    /\ StoredRecord(<<"u","n","i","t","s">>) # JNull


(***************************************************************************)
(* Exactness of the redaction.                                             *)
(***************************************************************************)
\* the members of an envelope other than value, in their order
EnvelopeFields(body) == SelectSeq(body.doc.members, LAMBDA member : member.key # <<"v","a","l","u","e">>)

CleanRows(body) == SelectSeq(RowsOf(body), LAMBDA row : ~NamesForbidden(row))

\* C34 (redaction is exact): when at least one row of the upstream value
\* names a forbidden owner, the value of the returned body is exactly the
\* upstream rows that name none, in their order, and every other top-level key
\* of the envelope, @odata.count and @odata.nextLink included, keeps its
\* upstream value.
RedactionExact ==
  Redacted /\ IsCollection(probe.body) /\ CleanRows(probe.body) # RowsOf(probe.body) =>
    /\ IsCollection(probe.out)
    /\ RowsOf(probe.out) = CleanRows(probe.body)
    /\ EnvelopeFields(probe.out) = EnvelopeFields(probe.body)

\* a counted page of three rows came back without its forbidden row, with
\* the count and the next link the upstream sent
RedactionExactWitness ==
  /\ Redacted /\ probe.body.format = "pretty"
  /\ probe.body.doc = Paged(<<RowNear, RowForbidden, RowClean>>)
  /\ RowsOf(probe.out) = <<RowNear, RowClean>>
  /\ GetKey(probe.out.doc, <<"@","o","d","a","t","a",".","c","o","u","n","t">>) = JNum(43)
  /\ GetKey(probe.out.doc, <<"@","o","d","a","t","a",".","n","e","x","t","L","i","n","k">>) = JStr(<<"U","n","i","t","s","?","$","s","k","i","p","=","2","0">>)


(***************************************************************************)
(* $orderby of an entity the catalog does not list.                        *)
(***************************************************************************)
InCatalog(entityName) ==
  \E i \in 1..Len(KNOWN_SORTABLE_FIELDS) :
    toLowerCase(KNOWN_SORTABLE_FIELDS[i].key) = toLowerCase(entityName)

DEFAULT_FIELDS == << <<"I","d">>, <<"R","e","f","e","r","e","n","c","e">>, <<"D","i","s","p","l","a","y","N","a","m","e">>, <<"N","a","m","e">> >>

\* the query of an entity absent from the catalog has been sanitised, and its
\* $orderby was not empty
AbsentEntityOrdered == HasOrderBy /\ ~InCatalog(probe.entityName)

EntityRecords(store) == {e \in store : IsEntityRecord(e)}

\* every field of every stored record is in the record of the same key after
\* the step
FieldsKept ==
  \A e \in EntityRecords(kv) :
    \E f \in EntityRecords(kv') : f.key = e.key /\ FieldsOf(e) \subseteq FieldsOf(f)

\* C36 (learned fields are never lost): under any interleaving of learner runs
\* for the same entity, a field name stored in learn:entity:<e> is in every
\* later value of that key; the stored set only grows.
LearnedFieldsKept == [][FieldsKept]_vars

\* the same for runs that do not overlap: a run that reads the record after
\* the last write to it keeps every field
ReadsLatest(r) ==
  task[r].pc = "putEntity" =>
    \A e \in EntityRecords(kv) :
      e.key = <<"l","e","a","r","n",":","e","n","t","i","t","y",":">> \o task[r].entityKey
        => FieldsOf(e) \subseteq ExistingFields(task[r].pending)

LearnedFieldsKeptInTurn == [][(\A r \in Slots : ReadsLatest(r)) => FieldsKept]_vars


\* no learner task is between two KV operations
LearnersAtRest == \A r \in Slots : task[r].pc = "idle"

\* the entity keys that have a record
RecordedEntities ==
  { SubSeq(e.key, Len(<<"l","e","a","r","n",":","e","n","t","i","t","y",":">>) + 1, Len(e.key)) : e \in EntityRecords(kv) }

IndexedEntities == UNION { {items[i] : i \in 1..Len(items)} : items \in IndexLists }

\* C37 (the index covers every record): once all learner tasks that were
\* started have finished or been cancelled, under any interleaving of tasks
\* for different entities and for a cancellation between two KV operations,
\* every entity with a learn:entity:<e> record is listed in learn:index:v1.
IndexCoversRecords == LearnersAtRest => RecordedEntities \subseteq IndexedEntities


(***************************************************************************)
(* Credentials on the two sides of the proxy.                              *)
(***************************************************************************)
\* every key and every string value of a document (a date written out by
\* toISOString has no text of its own)
RECURSIVE DocTexts(_)
DocTexts(doc) ==
  CASE doc.t = "string" -> IF "s" \in DOMAIN doc THEN {doc.s} ELSE {}
    [] doc.t = "array" -> UNION { DocTexts(doc.items[i]) : i \in 1..Len(doc.items) }
    [] doc.t = "object" ->
         UNION { {doc.members[i].key} \cup DocTexts(doc.members[i].val) :
                   i \in 1..Len(doc.members) }
    [] OTHER -> {}

\* every text of the body of a response (its headers are the fixed ones of
\* the code)
ResponseTexts(response) ==
  CASE response.body.format = "text" -> {response.body.text}
    [] response.body.format \in {"pretty", "compact"} -> DocTexts(response.body.doc)
    [] OTHER -> {}

\* every text of a request to the upstream: path, query, Authorization header
\* and body
UpstreamTexts(upstream) ==
  {upstream.pathname} \cup {upstream.search[i].name : i \in 1..Len(upstream.search)}
    \cup {upstream.search[i].value : i \in 1..Len(upstream.search)}
    \cup (IF upstream.authorization = Null THEN {} ELSE {upstream.authorization})
    \cup {upstream.body[i] : i \in 1..Len(upstream.body)}

\* the tokens the auth endpoint has handed out and the credentials that buy
\* them
UpstreamSecrets ==
  ({env.BLOXS_API_KEY, env.BLOXS_API_SECRET, cachedToken}
     \cup {local[r].token : r \in Slots}
     \cup UNION { {local[r].heard[i].token : i \in AuthRequestsOf(r) \cap 1..Len(local[r].heard)}
                  : r \in {s \in Slots : HeardFromAuth(s) /\ Refreshes(local[s].heard[1])} })
    \ {Null, <<>>}

\* C38 (credentials do not cross the proxy): in every reachable state no
\* request sent to the upstream contains the client's short key, and no
\* response to a client (success, error envelope, 500 or 502 message,
\* summary) contains the upstream apiKey, apiSecret or a JWT.
CredentialsDoNotCross ==
  \A r \in Slots :
    /\ \A i \in 1..Len(sent[r]) : \A text \in UpstreamTexts(sent[r][i]) :
         ~includes(text, env.PROXY_API_KEY)
    /\ \A text \in ResponseTexts(resp[r]) : \A secret \in UpstreamSecrets :
         ~includes(text, secret)

\* an invocation bought a token with the upstream credentials, forwarded the
\* request of a client that showed the short key, and answered with the error
\* envelope of the upstream's 404
CredentialsDoNotCrossWitness ==
  \E r \in Slots :
    /\ pc[r] = "done" /\ HeardError(r) /\ resp[r].status = 404
    /\ req[r].authorization = <<"B","e","a","r","e","r"," ">> \o env.PROXY_API_KEY
    /\ Len(sent[r]) = 2
    /\ sent[r][1].body = <<env.BLOXS_API_KEY, env.BLOXS_API_SECRET>>
    /\ sent[r][2].authorization = <<"B","e","a","r","e","r"," ","b","a","r","e">>
    /\ cachedToken = <<"b","a","r","e">> /\ cachedToken \in UpstreamSecrets


(***************************************************************************)
(* The sanitiser applied to its own result.                                *)
(***************************************************************************)
SanitisedTwice == probe.kind = "query" /\ probe.twice

\* C39 (the sanitiser is idempotent): for every entity and every query,
\* sanitising the sanitised query gives the same parameter sequence as
\* sanitising the query once.
SanitiserIdempotent == SanitisedTwice => ~probe.threw /\ probe.again = probe.out

\* a query whose $top was capped and whose $orderby fell back came out of the
\* second pass as it came out of the first
SanitiserIdempotentWitness ==
  /\ SanitisedTwice /\ probe.entityName = <<"f","i","n","a","n","c","i","a","l","m","u","t","a","t","i","o","n","s">>
  /\ probe.search = <<Param(<<"$","t","o","p">>, <<"9","9","9","9">>), Param(<<"$","o","r","d","e","r","b","y">>, <<"B","o","g","u","s"," ","D","E","S","C">>)>>
  /\ probe.out # probe.search
  /\ ParamsGet(probe.out, <<"$","t","o","p">>) = <<"1","0","0">>
  /\ probe.again = probe.out

=============================================================================
